---- MODULE Spec2Model ----
(***************************************************************************)
(* Verification model of the automation core of RTB2000-Oscilloscope-      *)
(* Control (src/src/rtb2000_control/automation).                           *)
(*                                                                         *)
(* Part 1 (specification Spec): MeasurementSequence, its                   *)
(* SequenceExecutionThread and the AutomationEngine registry               *)
(* (automation.py).                                                        *)
(* Part 2 (specification SpecScript): AutomationScript, ScriptContext,     *)
(* ScriptExecutionThread and ScriptingEngine (scripting.py).               *)
(*                                                                         *)
(* Threading.  Every public method and every slot of MeasurementSequence,  *)
(* AutomationEngine, AutomationScript and ScriptingEngine runs on the one  *)
(* controller (GUI) thread, so each is one atomic action.  The QThread      *)
(* run() bodies execute concurrently with them; a run() body is cut into   *)
(* one action per read of a field the controller writes (paused,           *)
(* cancelled, should_stop), so every interleaving of the flag writes with  *)
(* the worker's reads is a behaviour of the model.  A signal emitted by a  *)
(* worker towards a slot of an object living on the controller thread is a *)
(* queued connection: it is appended to the controller's event queue and   *)
(* the slot runs later, in FIFO order (action Deliver...).  Signals        *)
(* between objects of the controller thread are direct calls and are part  *)
(* of the emitting action.                                                 *)
(***************************************************************************)
EXTENDS Integers, Sequences, FiniteSets, TLC

VARIABLES
    \* ---- MeasurementSequence (automation.py:88-110) ----
    steps,              \* self.steps: list of MeasurementStep
    status,             \* self.status: SequenceStatus
    current_step_index, \* self.current_step_index
    result,             \* self.result: SequenceResult or NoResult
    execution_thread,   \* self.execution_thread is not None
    \* ---- SequenceExecutionThread (automation.py:373-378, 380-412) ----
    paused,             \* thread.paused
    cancelled,          \* thread.cancelled
    pc,                 \* position of run()
    idx,                \* 1-based position of the for loop in steps
    \* ---- AutomationEngine (automation.py:531-532) ----
    sequences,          \* keys of self.sequences
    active_sequences,   \* keys of self.active_sequences
    \* ---- controller event loop and observation ----
    mainQueue,          \* queued worker->controller signals, FIFO
    history,            \* observed signals of the sequence (sequence_started, step_started,
                        \* step_failed, sequence_failed, sequence_completed) in emission
                        \* order, and the cancel call that returned True
    lastOp,             \* the last start_execution / start_sequence call and its return value
    threads_created,    \* number of SequenceExecutionThread objects constructed
    rejected            \* number of start calls that were rejected

seqVars == <<steps, status, current_step_index, result, execution_thread,
             paused, cancelled, pc, idx, sequences, active_sequences,
             mainQueue, history, lastOp, threads_created, rejected>>

VARIABLES
    \* ---- ScriptingEngine (scripting.py:708-712) ----
    scripts,            \* keys of self.scripts
    \* ---- AutomationScript (scripting.py:199-219), one entry per script id ----
    parameters,         \* self.parameters: list of ScriptParameter
    script_status,      \* self.status: ScriptStatus
    context,            \* self.context: "none", the script's own ScriptContext, or
                        \* the engine's global_context
    last_result,        \* self.last_result: status, return_value and error of the
                        \* ScriptResult, or NoLastResult
    \* ---- ScriptExecutionThread (scripting.py:416-420, 422-482) ----
    thread,             \* per script: position of run(), thread.cancelled, the
                        \* context run() bound its primitives to, calls made by the
                        \* body, run()'s output_buffer, the body's local binding of
                        \* `result`, the log calls the body has made, the names
                        \* outside the context's primitives it has resolved, and how
                        \* the body ended (returned, raised, or interrupted by the
                        \* InterruptedError of check_stop)
    \* ---- ScriptContext (scripting.py:119-124), one entry per context object ----
    ctx_parameters,     \* context.parameters
    should_stop,        \* context.should_stop
    progress_callback,  \* context.progress_callback: "none" or the script it relays to
    output_callback,    \* context.output_callback: "none", relay or capture of a script
    \* ---- controller event loop and observation ----
    scriptQueue,        \* queued worker->controller signals, FIFO
    emitted,            \* per script and signal: number of emissions so far
    cancel_returned,    \* per script: cancel() has returned True
    script_ret,         \* the last execute / execute_script call: its return value,
                        \* whether the parameters handed to execute_script were a valid
                        \* value for every required parameter, and the parameters
                        \* that the error message of a rejected call names
    script_calls        \* number of execute / execute_script calls so far

scriptVars == <<scripts, parameters, script_status, context, last_result, thread,
                ctx_parameters, should_stop, progress_callback, output_callback,
                scriptQueue, emitted, cancel_returned, script_ret, script_calls>>

VARIABLES
    \* ---- ScriptTemplate and the scripts made from it (scripting.py:72-84, 680-692) ----
    objects,             \* the ScriptParameter objects: per object its fields, or
                         \* NoObject while not allocated
    template_parameters, \* template.parameters: list of references to objects
    instance_parameters, \* per script made from the template: script.parameters, a
                         \* list of references to objects; NotCreated before
    template_op          \* the last change made through a script's parameters

tmplVars == <<objects, template_parameters, instance_parameters, template_op>>

VARIABLES
    \* ---- ChannelGroup (multi_channel.py:125-151) ----
    channels,            \* self.channels: dict of ChannelConfig, in insertion order
    sync_config,         \* self.sync_config: sync_mode and master_channel
    group_ret            \* the last add_channel / remove_channel / set_sync_config
                         \* call: its return value, the master a set_sync_config
                         \* call asked for, and whether a successful one found a
                         \* channel with role REFERENCE or TRIGGER

groupVars == <<channels, sync_config, group_ret>>

VARIABLES
    \* ---- AdvancedTriggerManager (advanced_triggers.py:191-215) ----
    triggers,            \* self.triggers: the registered AdvancedTrigger per id
    active_trigger,      \* self.active_trigger
    trigger_timer,       \* self.trigger_timer is running
    activation,          \* the trigger of the last successful activate_trigger
                         \* and the trigger_fired signals emitted since
    trigger_ret          \* the last call: its return value (for the timer's
                         \* callback: whether it fired) and the trigger it
                         \* deactivated

trigVars == <<triggers, active_trigger, trigger_timer, activation, trigger_ret>>

VARIABLES
    \* ---- ChannelGroup acquisition (multi_channel.py:138-149) ----
    oscilloscope,        \* self.oscilloscope: None, or the collaborator's methods
    is_acquiring,        \* self.is_acquiring
    acquisition_thread,  \* self.acquisition_thread exists and runs its loop
    last_acquisition,    \* self.last_acquisition
    data_buffer,         \* self.data_buffer
    captures,            \* the MultiChannelData objects made so far; the n-th
                         \* one is identified by n
    acqQueue,            \* data_acquired signals of the thread, queued for the
                         \* group's slot
    acq_ret              \* the last call: its return value, whether it ran
                         \* _perform_synchronized_acquisition, how the poll loop
                         \* ended, and the message it emitted with sync_error

acqVars == <<oscilloscope, is_acquiring, acquisition_thread, last_acquisition,
             data_buffer, captures, acqQueue, acq_ret>>

VARIABLES
    \* ---- synchronisation analysis (multi_channel.py:475-511) ----
    voltage_data,        \* the voltage_data arrays of the master and a slave
    sync_quality         \* the slave's scores, once computed for these arrays

qualVars == <<voltage_data, sync_quality>>

VARIABLES
    \* ---- a run of the frequency_sweep template's code (scripting.py:536-577) ----
    sweep                \* the parameters it reads, its locals and the calls it made

sweepVars == <<sweep>>

VARIABLES
    \* ---- MeasurementSequence.to_dict / from_dict, load_sequence (automation.py:318-362, 642-657) ----
    sequence_obj,        \* a MeasurementSequence built by the caller, with whole steps
    document,            \* the dictionary that to_dict returned for it
    reloaded,            \* the MeasurementSequence that from_dict made of document
    loaded,              \* the sequences that load_sequence registered, in order
    load_ret             \* the last call of load_sequence: its data and what it returned

docVars == <<sequence_obj, document, reloaded, loaded, load_ret>>

\* the state outside the sequence part, and outside the script part
notSeqVars == <<scriptVars, tmplVars, groupVars, trigVars, acqVars, qualVars, sweepVars, docVars>>
notScriptVars == <<seqVars, tmplVars, groupVars, trigVars, acqVars, qualVars, sweepVars, docVars>>
notTmplVars == <<seqVars, scriptVars, groupVars, trigVars, acqVars, qualVars, sweepVars, docVars>>
notGroupVars == <<seqVars, scriptVars, tmplVars, trigVars, acqVars, qualVars, sweepVars, docVars>>
notTrigVars == <<seqVars, scriptVars, tmplVars, groupVars, acqVars, qualVars, sweepVars, docVars>>
notAcqVars == <<seqVars, scriptVars, tmplVars, groupVars, trigVars, qualVars, sweepVars, docVars>>
notQualVars == <<seqVars, scriptVars, tmplVars, groupVars, trigVars, acqVars, sweepVars, docVars>>

notSweepVars == <<seqVars, scriptVars, tmplVars, groupVars, trigVars, acqVars, qualVars,
                  docVars>>
notDocVars == <<seqVars, scriptVars, tmplVars, groupVars, trigVars, acqVars, qualVars,
                sweepVars>>

vars == <<seqVars, scriptVars, tmplVars, groupVars, trigVars, acqVars, qualVars,
          sweepVars, docVars>>

(***************************************************************************)
(* Bounds of the model.                                                    *)
(***************************************************************************)
MaxSteps == 3
MaxRejected == 1
MaxRetry == 1

(***************************************************************************)
(* Data.                                                                   *)
(***************************************************************************)
SeqId == "seq1"

SequenceStatus == {"idle", "running", "paused", "completed", "failed", "cancelled"}

\* The step types the model distinguishes by how execute_step ends:
\* measurement always returns, condition evaluates an expression and may raise,
\* analysis has no executor branch and always raises.
StepTypes == {"measurement", "condition", "analysis"}

\* StepType.ANALYSIS and StepType.EXPORT: members of the enum that none of the
\* elif branches of execute_step names.
NoExecutorTypes == {"analysis", "export"}

NoResult == [status |-> "none", ended |-> FALSE, errors |-> <<>>, step_results |-> {}]

\* An entry of history: signal name, step id (or -1), and the method emitting it.
Sig(s, a, m) == [sig |-> s, arg |-> a, by |-> m]

\* The condition expressions of the model: the two literals, and "var", an
\* expression over a sequence variable, which evaluates if the variable is set
\* and raises NameError if it is not.
ConditionLiterals == {"True", "False"}

\* add_condition_step: `'action': action  # continue, skip, abort, repeat`
ConditionActions == {"continue", "skip", "abort"}

\* eval(condition, {'__builtins__': {}}, self.sequence.variables) for a literal
ConditionResult(step) == step.condition = "True"

ExecuteStepOutcomesExportReturns(step) ==
    CASE step.step_type \in {"measurement", "delay", "export"} -> {"return"}
      [] step.step_type = "condition"   ->
            IF step.condition \in ConditionLiterals THEN {"return"}
            ELSE {"return", "raise"}
      [] OTHER                          -> {"raise"}

\* execute_step: the ways the call can end for a step of this type.  A delay
\* sleeps for its duration and returns.
ExecuteStepOutcomes(step) ==
    CASE step.step_type = "measurement" -> {"return"}
      [] step.step_type = "delay"       -> {"return"}
      [] step.step_type = "condition"   ->
            IF step.condition \in ConditionLiterals THEN {"return"}
            ELSE {"return", "raise"}
      [] OTHER                          -> {"raise"}

InitSequence ==
    /\ steps = <<>>
    /\ status = "idle"
    /\ current_step_index = 0
    /\ result = NoResult
    /\ execution_thread = FALSE
    /\ paused = FALSE
    /\ cancelled = FALSE
    /\ pc = "none"
    /\ idx = 0
    /\ sequences = {}
    /\ active_sequences = {}
    /\ mainQueue = <<>>
    /\ history = <<>>
    /\ lastOp = [op |-> "none", ret |-> FALSE]
    /\ threads_created = 0
    /\ rejected = 0

(***************************************************************************)
(* AutomationEngine slots connected to the sequence's signals in           *)
(* register_sequence (automation.py:548-550).  Both objects live on the    *)
(* controller thread, so the slot runs inside the emitting method.         *)
(***************************************************************************)
\* _on_sequence_completed / _on_sequence_failed: drop the id from active_sequences.
EngineForget(act) == IF SeqId \in sequences THEN act \ {SeqId} ELSE act

(***************************************************************************)
(* MeasurementSequence: building.                                          *)
(***************************************************************************)
\* add_step / add_*_step: step_id is derived from len(self.steps).  The model
\* builds the step list before the run: no step is added once a worker exists.
NewStep(t, e, c, a) ==
    [step_id |-> Len(steps), step_type |-> t, enabled |-> e,
     condition |-> c, action |-> a, retry_count |-> 0]

\* add_step: self.steps.append(step)
AppendStep(step) ==
    /\ status = "idle"
    /\ Len(steps) < MaxSteps
    /\ steps' = Append(steps, step)
    /\ UNCHANGED <<status, current_step_index, result, execution_thread, paused,
                   cancelled, pc, idx, sequences, active_sequences, mainQueue,
                   history, lastOp, threads_created, rejected, notSeqVars>>

\* A step of type t with its enabled flag; a condition step made this way
\* tests a sequence variable and has the default action.
AddStep(t, e) ==
    AppendStep(IF t = "condition" THEN NewStep(t, e, "var", "continue")
               ELSE NewStep(t, e, "", ""))

\* add_step(MeasurementStep(..., retry_count=r)): a condition step over a
\* sequence variable, whose evaluation returns or raises
AddStepWithRetry(r) ==
    AppendStep([NewStep("condition", TRUE, "var", "continue") EXCEPT !.retry_count = r])

\* add_delay_step
AddDelayStep == AppendStep(NewStep("delay", TRUE, "", ""))

\* add_condition_step(name, condition, action)
AddConditionStep(c, a) == AppendStep(NewStep("condition", TRUE, c, a))

\* AutomationEngine.register_sequence
RegisterSequence ==
    /\ SeqId \notin sequences
    /\ sequences' = sequences \cup {SeqId}
    /\ UNCHANGED <<steps, status, current_step_index, result, execution_thread, paused,
                   cancelled, pc, idx, active_sequences, mainQueue,
                   history, lastOp, threads_created, rejected, notSeqVars>>

(***************************************************************************)
(* MeasurementSequence.start_execution                                     *)
(***************************************************************************)
StartAllowedAnyStatus == Len(steps) > 0

\* the two checks that raise ValueError
StartAllowed == status = "idle" /\ Len(steps) > 0

\* start_execution, called directly (viaEngine = FALSE) or from start_sequence,
\* which on success records the sequence in active_sequences.
StartExecutionBody(op, viaEngine) ==
    IF StartAllowed
    THEN /\ result' = [NoResult EXCEPT !.status = "running"]
         /\ status' = "running"
         /\ current_step_index' = 0
         /\ execution_thread' = TRUE
         /\ paused' = FALSE
         /\ cancelled' = FALSE
         /\ pc' = "top"
         /\ idx' = 1
         /\ threads_created' = threads_created + 1
         /\ history' = Append(history, Sig("sequence_started", -1, "start_execution"))
         /\ active_sequences' = IF viaEngine THEN active_sequences \cup {SeqId}
                                             ELSE active_sequences
         /\ lastOp' = [op |-> op, ret |-> TRUE]
         /\ UNCHANGED <<steps, sequences, mainQueue, rejected, notSeqVars>>
    ELSE /\ rejected < MaxRejected
         /\ rejected' = rejected + 1
         /\ history' = Append(history, Sig("sequence_failed", -1, "start_execution"))
         /\ active_sequences' = EngineForget(active_sequences)
         /\ lastOp' = [op |-> op, ret |-> FALSE]
         /\ UNCHANGED <<steps, status, current_step_index, result, execution_thread,
                        paused, cancelled, pc, idx, sequences, mainQueue, threads_created, notSeqVars>>

StartExecution == StartExecutionBody("start_execution", FALSE)

\* AutomationEngine.start_sequence
StartSequence ==
    IF SeqId \in sequences
    THEN StartExecutionBody("start_sequence", TRUE)
    ELSE /\ lastOp # [op |-> "start_sequence", ret |-> FALSE]
         /\ lastOp' = [op |-> "start_sequence", ret |-> FALSE]
         /\ UNCHANGED <<steps, status, current_step_index, result, execution_thread,
                        paused, cancelled, pc, idx, sequences, active_sequences,
                        mainQueue, history, threads_created, rejected, notSeqVars>>

(***************************************************************************)
(* pause / resume / cancel                                                 *)
(***************************************************************************)
\* SequenceExecutionThread.pause
ThreadPause == paused' = TRUE /\ UNCHANGED cancelled

\* SequenceExecutionThread.resume
ThreadResume == paused' = FALSE /\ UNCHANGED cancelled

ThreadCancelOnlyUnpause == paused' = FALSE /\ UNCHANGED cancelled

\* SequenceExecutionThread.cancel
ThreadCancel == cancelled' = TRUE /\ paused' = FALSE

\* MeasurementSequence.pause_execution
PauseExecutionBody ==
    /\ status = "running"
    /\ status' = "paused"
    /\ IF execution_thread THEN ThreadPause ELSE UNCHANGED <<paused, cancelled>>
    /\ UNCHANGED <<steps, current_step_index, result, execution_thread, pc, idx,
                   sequences, active_sequences, mainQueue, history, lastOp,
                   threads_created, rejected, notSeqVars>>

\* MeasurementSequence.resume_execution
ResumeExecutionBody ==
    /\ status = "paused"
    /\ status' = "running"
    /\ IF execution_thread THEN ThreadResume ELSE UNCHANGED <<paused, cancelled>>
    /\ UNCHANGED <<steps, current_step_index, result, execution_thread, pc, idx,
                   sequences, active_sequences, mainQueue, history, lastOp,
                   threads_created, rejected, notSeqVars>>

\* MeasurementSequence.cancel_execution returning True.  The history entry
\* records the call, with the worker's position and the status at the call.
CancelExecutionBody(viaEngine) ==
    /\ status \in {"running", "paused"}
    /\ status' = "cancelled"
    /\ IF execution_thread THEN ThreadCancel ELSE UNCHANGED <<paused, cancelled>>
    /\ history' = Append(history, Sig("cancel_returned_true",
                                      IF status = "paused" /\ pc \in {"wait", "wait_cancelled"}
                                      THEN 1 ELSE 0,
                                      "cancel_execution"))
    /\ active_sequences' = IF viaEngine THEN active_sequences \ {SeqId}
                                        ELSE active_sequences
    /\ UNCHANGED <<steps, current_step_index, result, execution_thread, pc, idx,
                   sequences, mainQueue, lastOp, threads_created, rejected, notSeqVars>>

\* The calls that return False change nothing and are left out (stuttering).
PauseExecution == PauseExecutionBody
ResumeExecution == ResumeExecutionBody
CancelExecution == CancelExecutionBody(FALSE)

\* AutomationEngine.pause_sequence / resume_sequence / cancel_sequence
PauseSequence == SeqId \in active_sequences /\ PauseExecutionBody
ResumeSequence == SeqId \in active_sequences /\ ResumeExecutionBody
CancelSequence == SeqId \in active_sequences /\ CancelExecutionBody(TRUE)

(***************************************************************************)
(* SequenceExecutionThread.run (automation.py:380-412).                    *)
(* pc: "top"            for-loop header and the first `if self.cancelled`  *)
(*     "wait"           `while self.paused ...`: read of paused            *)
(*     "wait_cancelled" `... and not self.cancelled`: read of cancelled    *)
(*     "recheck"        the second `if self.cancelled`                     *)
(*     "enabled"        `if not step.enabled` and step_started.emit        *)
(*     "exec"           inside execute_step                                *)
(*     "after"          `if not self.cancelled: sequence_completed.emit()` *)
(*     "done"           run() has returned                                 *)
(***************************************************************************)
workerUnchanged == UNCHANGED <<steps, status, current_step_index, result,
                               execution_thread, paused, cancelled, sequences,
                               active_sequences, lastOp, threads_created, rejected, notSeqVars>>

WorkerTop ==
    /\ pc = "top"
    /\ pc' = IF idx > Len(steps) \/ cancelled THEN "after" ELSE "wait"
    /\ UNCHANGED <<idx, mainQueue, history>>
    /\ workerUnchanged

WorkerWait ==
    /\ pc = "wait"
    /\ pc' = IF paused THEN "wait_cancelled" ELSE "recheck"
    /\ UNCHANGED <<idx, mainQueue, history>>
    /\ workerUnchanged

\* not cancelled: msleep(100) and back to the loop condition
WorkerWaitCancelled ==
    /\ pc = "wait_cancelled"
    /\ pc' = IF cancelled THEN "recheck" ELSE "wait"
    /\ UNCHANGED <<idx, mainQueue, history>>
    /\ workerUnchanged

WorkerRecheck ==
    /\ pc = "recheck"
    /\ pc' = IF cancelled THEN "after" ELSE "enabled"
    /\ UNCHANGED <<idx, mainQueue, history>>
    /\ workerUnchanged

StepRunsAlways(step) == TRUE

\* `if not step.enabled: continue`
StepRuns(step) == step.enabled

\* a disabled step is skipped with `continue`; an enabled one is announced
WorkerEnabled ==
    /\ pc = "enabled"
    /\ IF StepRuns(steps[idx])
       THEN /\ pc' = "exec"
            /\ history' = Append(history, Sig("step_started", steps[idx].step_id, "run"))
            /\ UNCHANGED idx
       ELSE /\ pc' = "top"
            /\ idx' = idx + 1
            /\ UNCHANGED history
    /\ UNCHANGED mainQueue
    /\ workerUnchanged

AfterStepErrorContinue == pc' = "top" /\ idx' = idx + 1

AfterStepErrorRetry ==
    /\ pc' = IF steps[idx].retry_count > 0 THEN "enabled" ELSE "done"
    /\ UNCHANGED idx

\* `return  # Stop execution on error`
AfterStepError == pc' = "done" /\ UNCHANGED idx

\* execute_step returns or raises; the signal to the sequence is queued
WorkerExec ==
    /\ pc = "exec"
    /\ \E outcome \in ExecuteStepOutcomes(steps[idx]) :
          IF outcome = "return"
          THEN /\ mainQueue' = Append(mainQueue, Sig("step_completed", steps[idx].step_id, "run"))
               /\ pc' = "top"
               /\ idx' = idx + 1
          ELSE /\ mainQueue' = Append(mainQueue, Sig("step_failed", steps[idx].step_id, "run"))
               /\ AfterStepError
    /\ UNCHANGED history
    /\ workerUnchanged

WorkerAfter ==
    /\ pc = "after"
    /\ pc' = "done"
    /\ mainQueue' = IF cancelled THEN mainQueue
                    ELSE Append(mainQueue, Sig("sequence_completed", -1, "run"))
    /\ UNCHANGED <<idx, history>>
    /\ workerUnchanged

(***************************************************************************)
(* Slots of MeasurementSequence run by the controller's event loop.        *)
(***************************************************************************)
\* _on_sequence_failed
OnSequenceFailed(res, id) ==
    /\ result' = IF res = NoResult THEN res
                 ELSE [res EXCEPT !.status = "failed", !.ended = TRUE,
                                  !.errors = Append(@, [kind |-> "sequence", step_id |-> id])]
    /\ status' = "failed"
    /\ active_sequences' = EngineForget(active_sequences)

\* _on_step_completed
OnStepCompleted(id) ==
    /\ result' = IF result = NoResult THEN result
                 ELSE [result EXCEPT !.step_results = @ \cup {id}]
    /\ current_step_index' = current_step_index + 1
    /\ UNCHANGED history
    /\ UNCHANGED <<status, active_sequences>>

\* _on_step_failed, which ends in _on_sequence_failed
OnStepFailed(id) ==
    /\ OnSequenceFailed(IF result = NoResult THEN result
                        ELSE [result EXCEPT !.errors =
                                 Append(@, [kind |-> "step", step_id |-> id])], id)
    /\ history' = history \o
          << Sig("step_failed", id, "_on_step_failed"),
             Sig("sequence_failed", id, "_on_sequence_failed") >>
    /\ UNCHANGED current_step_index

\* _on_sequence_completed
OnSequenceCompleted ==
    /\ result' = IF result = NoResult THEN result
                 ELSE [result EXCEPT !.status = "completed", !.ended = TRUE]
    /\ status' = "completed"
    /\ history' = Append(history, Sig("sequence_completed", -1, "_on_sequence_completed"))
    /\ active_sequences' = EngineForget(active_sequences)
    /\ UNCHANGED current_step_index

\* the event loop takes the oldest queued signal and runs the connected slot
DeliverEvent ==
    /\ mainQueue # <<>>
    /\ LET ev == Head(mainQueue) IN
          CASE ev.sig = "step_completed" -> OnStepCompleted(ev.arg)
            [] ev.sig = "step_failed"    -> OnStepFailed(ev.arg)
            [] OTHER                     -> OnSequenceCompleted
    /\ mainQueue' = Tail(mainQueue)
    /\ UNCHANGED <<steps, execution_thread, paused, cancelled, pc, idx, sequences,
                   lastOp, threads_created, rejected, notSeqVars>>

WorkerStep ==
    \/ WorkerTop
    \/ WorkerWait
    \/ WorkerWaitCancelled
    \/ WorkerRecheck
    \/ WorkerEnabled
    \/ WorkerExec
    \/ WorkerAfter

(***************************************************************************)
(* Part 2: scripting.py.                                                   *)
(***************************************************************************)
MaxParams == 2
MaxExecCalls == 2
MaxBodyCalls == 1
MaxEngineCalls == 3

ScriptIds == {"A", "B"}

\* the scripts that SpecScript registers and runs
RunScripts == {"A"}

\* One ScriptContext object per script (created by set_parameter_value or
\* execute when the script has none, or handed to execute) and the engine's
\* global_context.
Own(s) == IF s = "A" THEN "own_A" ELSE "own_B"
Contexts == {"global", "own_A", "own_B"}

\* Python values by type: None, int, str.
None == [t |-> "none", n |-> 0, s |-> ""]
IntV(k) == [t |-> "int", n |-> k, s |-> ""]
StrV(x) == [t |-> "str", n |-> 0, s |-> x]

Names == {"num_points", "channel"}
Values == {None, IntV(10), IntV(2000), StrV("CH1"), StrV("abc")}
NoValues == [n \in Names |-> None]

\* ScriptParameter declarations, after the frequency_sweep template
\* (scripting.py:577-580), and a variant that is not required.
NumPointsParam ==
    [name |-> "num_points", param_type |-> "int", has_min |-> TRUE, min_value |-> 2,
     has_max |-> TRUE, max_value |-> 1000, choices |-> {}, required |-> TRUE]
ChannelParam ==
    [name |-> "channel", param_type |-> "str", has_min |-> FALSE, min_value |-> 0,
     has_max |-> FALSE, max_value |-> 0,
     choices |-> {StrV("CH1"), StrV("CH2"), StrV("CH3"), StrV("CH4")}, required |-> TRUE]
OptionalChannelParam == [ChannelParam EXCEPT !.required = FALSE]
ParamDecls == {NumPointsParam, ChannelParam, OptionalChannelParam}

NoCallback == [kind |-> "none", script |-> ""]
NoThread == [pc |-> "none", cancelled |-> FALSE, ctx |-> "none", calls |-> 0,
             output |-> <<>>, bound |-> FALSE, result |-> None,
             logged |-> <<>>, reached |-> {}, outcome |-> "none"]
NoLastResult == [status |-> "none", return_value |-> None, error |-> ""]
SignalNames == {"execution_started", "execution_completed", "execution_failed",
                "execution_failed_by_execute", "progress_updated", "output_updated"}

InitScript ==
    /\ scripts = {}
    /\ parameters = [s \in ScriptIds |-> <<>>]
    /\ script_status = [s \in ScriptIds |-> "idle"]
    /\ context = [s \in ScriptIds |-> "none"]
    /\ last_result = [s \in ScriptIds |-> NoLastResult]
    /\ thread = [s \in ScriptIds |-> NoThread]
    /\ ctx_parameters = [c \in Contexts |-> NoValues]
    /\ should_stop = [c \in Contexts |-> FALSE]
    /\ progress_callback = [c \in Contexts |-> "none"]
    /\ output_callback = [c \in Contexts |-> NoCallback]
    /\ scriptQueue = <<>>
    /\ emitted = [s \in ScriptIds |-> [g \in SignalNames |-> 0]]
    /\ cancel_returned = [s \in ScriptIds |-> FALSE]
    /\ script_ret = [op |-> "none", sid |-> "", ret |-> FALSE, valid |-> FALSE,
                     named |-> {}]
    /\ script_calls = 0

(***************************************************************************)
(* AutomationScript.validate_parameters (scripting.py:237-275).            *)
(***************************************************************************)
\* isinstance(value, int); no float value is in Values
IsIntInstance(v) == v.t = "int"

\* int(value) / float(value) do not raise: a number, or a numeric string
NumericStrings == {"7"}
Convertible(v) == v.t = "int" \/ (v.t = "str" /\ v.s \in NumericStrings)

\* `value not in param.choices`
InChoices(v, choices) == v \in choices

\* type validation of one parameter
TypeErrors(d, v) ==
    IF d.param_type \in {"int", "float"} /\ ~IsIntInstance(v) /\ ~Convertible(v)
    THEN <<[name |-> d.name, kind |-> "type"]>>
    ELSE IF d.param_type = "bool" /\ v.t # "bool"
    THEN <<[name |-> d.name, kind |-> "type"]>>
    ELSE <<>>

\* `value < param.min_value` / `value > param.max_value` between a str and a
\* number raises TypeError, which validate_parameters does not catch
RangeRaises(d, v) == (d.has_min \/ d.has_max) /\ v.t = "str"

RangeErrors(d, v) ==
    (IF d.has_min /\ v.n < d.min_value THEN <<[name |-> d.name, kind |-> "min"]>> ELSE <<>>)
    \o (IF d.has_max /\ v.n > d.max_value THEN <<[name |-> d.name, kind |-> "max"]>> ELSE <<>>)

ChoiceErrors(d, v) ==
    IF d.choices # {} /\ ~InChoices(v, d.choices)
    THEN <<[name |-> d.name, kind |-> "choice"]>>
    ELSE <<>>

ParamErrorsNoUnsetCheck(d, v) ==
    IF ~d.required \/ v = None THEN <<>>
    ELSE TypeErrors(d, v) \o RangeErrors(d, v) \o ChoiceErrors(d, v)

\* the errors appended for one declared parameter whose checks do not raise
ParamErrors(d, v) ==
    IF ~d.required THEN <<>>
    ELSE IF v = None THEN <<[name |-> d.name, kind |-> "not_set"]>>
    ELSE TypeErrors(d, v) \o RangeErrors(d, v) \o ChoiceErrors(d, v)

RECURSIVE ValidateFrom(_, _, _)
ValidateFrom(decls, vals, i) ==
    IF i > Len(decls) THEN [exc |-> FALSE, errors |-> <<>>]
    ELSE LET d == decls[i]
             v == vals[d.name]
             rest == ValidateFrom(decls, vals, i + 1)
         IN  IF d.required /\ v # None /\ RangeRaises(d, v)
             THEN [exc |-> TRUE, errors |-> <<>>]
             ELSE [exc |-> rest.exc, errors |-> ParamErrors(d, v) \o rest.errors]

\* validate_parameters over the list `decls` and the values `vals` that
\* get_parameter_value returns: the error list, or exc when a comparison raised
ValidateParameters(decls, vals) == ValidateFrom(decls, vals, 1)

\* get_parameter_value for every name, for a script whose context is c
ValuesOf(c, cp) == IF c = "none" THEN NoValues ELSE cp[c]

\* some required declared parameter has no value (get_parameter_value is None)
RequiredUnset(decls, vals) ==
    \E i \in 1..Len(decls) : decls[i].required /\ vals[decls[i].name] = None

\* the call supplies, for every required declared parameter, a value that
\* meets the declaration
SuppliesValid(decls, given) ==
    \A i \in 1..Len(decls) :
        decls[i].required =>
            /\ decls[i].name \in DOMAIN given
            /\ given[decls[i].name] # None
            /\ ~RangeRaises(decls[i], given[decls[i].name])
            /\ ParamErrors(decls[i], given[decls[i].name]) = <<>>

Emit(em, s, g) == [em EXCEPT ![s][g] = @ + 1]

(***************************************************************************)
(* AutomationScript: building, parameter values, execute, cancel.          *)
(***************************************************************************)
\* add_parameter; the declarations are made before the script is run
AddParameter(s, d) ==
    /\ script_status[s] = "idle"
    /\ Len(parameters[s]) < MaxParams
    /\ parameters' = [parameters EXCEPT ![s] = Append(@, d)]
    /\ UNCHANGED <<scripts, script_status, context, last_result, thread, ctx_parameters,
                   should_stop, progress_callback, output_callback, scriptQueue, emitted,
                   cancel_returned, script_ret, script_calls, notScriptVars>>

\* set_parameter_value: the context the value is written to
ContextForSet(s, cx) == IF cx[s] = "none" THEN Own(s) ELSE cx[s]

SetParameterValue(s, name, v) ==
    /\ context' = [context EXCEPT ![s] = ContextForSet(s, context)]
    /\ ctx_parameters' = [ctx_parameters EXCEPT ![ContextForSet(s, context)][name] = v]
    /\ UNCHANGED <<scripts, parameters, script_status, last_result, thread,
                   should_stop, progress_callback, output_callback, scriptQueue, emitted,
                   cancel_returned, script_ret, script_calls, notScriptVars>>

ExecuteAcceptsAnyStatus(s, cx, cp) ==
    ValidateParameters(parameters[s], ValuesOf(cx[s], cp)) = [exc |-> FALSE, errors |-> <<>>]

\* execute passes its two checks: the status is Idle and validate_parameters
\* returns no error (and does not raise); cx and cp are self.context and the
\* contexts' parameters at the call
ExecuteAccepts(s, cx, cp) ==
    /\ script_status[s] = "idle"
    /\ ValidateParameters(parameters[s], ValuesOf(cx[s], cp))
          = [exc |-> FALSE, errors |-> <<>>]

\* the parameters named by the message that a rejected execute emits with
\* execution_failed: those of the error list of validate_parameters; none when
\* the status check or validate_parameters raised ("Failed to start script
\* execution: <exception>")
ErrorNames(errors) == {errors[i].name : i \in 1..Len(errors)}
NamedInError(s, cx, cp) ==
    LET v == ValidateParameters(parameters[s], ValuesOf(cx[s], cp))
    IN  IF script_status[s] # "idle" \/ v.exc THEN {} ELSE ErrorNames(v.errors)

\* AutomationScript.execute(context): ctxArg is "none" or "fresh" (a new
\* ScriptContext handed in by the caller); cx, cp as above.  `call` describes the
\* call for script_ret.
ExecuteBodyUpTo(limit, s, ctxArg, cx, cp, call) ==
    /\ script_calls < limit
    /\ script_calls' = script_calls + 1
    /\ IF ExecuteAccepts(s, cx, cp)
       THEN LET new == ctxArg = "fresh" \/ cx[s] = "none"
                c == IF new THEN Own(s) ELSE cx[s]
            IN  /\ context' = [cx EXCEPT ![s] = c]
                /\ ctx_parameters' = IF new THEN [cp EXCEPT ![c] = NoValues] ELSE cp
                /\ should_stop' = IF new THEN [should_stop EXCEPT ![c] = FALSE]
                                         ELSE should_stop
                /\ progress_callback' = [progress_callback EXCEPT ![c] = s]
                /\ output_callback' = [output_callback EXCEPT
                                          ![c] = [kind |-> "relay", script |-> s]]
                /\ thread' = [thread EXCEPT ![s] = [NoThread EXCEPT !.pc = "start"]]
                /\ script_status' = [script_status EXCEPT ![s] = "running"]
                /\ emitted' = Emit(emitted, s, "execution_started")
                /\ script_ret' = [call EXCEPT !.ret = TRUE]
       ELSE /\ context' = cx
            /\ ctx_parameters' = cp
            /\ emitted' = Emit(emitted, s, "execution_failed_by_execute")
            /\ script_ret' = [call EXCEPT !.ret = FALSE,
                                         !.named = NamedInError(s, cx, cp)]
            /\ UNCHANGED <<should_stop, progress_callback, output_callback, thread,
                           script_status>>
    /\ UNCHANGED <<scripts, parameters, last_result, scriptQueue, cancel_returned, notScriptVars>>

\* the call, in a model that makes up to MaxExecCalls calls
ExecuteBody(s, ctxArg, cx, cp, call) ==
    ExecuteBodyUpTo(MaxExecCalls, s, ctxArg, cx, cp, call)

\* a direct call of AutomationScript.execute
Execute(s, ctxArg) ==
    ExecuteBody(s, ctxArg, context, ctx_parameters,
                [op |-> "execute", sid |-> s, ret |-> FALSE, valid |-> FALSE,
                 named |-> {}])

\* AutomationScript.cancel returning True
Cancel(s) ==
    /\ script_status[s] = "running"
    /\ should_stop' = IF context[s] = "none" THEN should_stop
                      ELSE [should_stop EXCEPT ![context[s]] = TRUE]
    /\ thread' = [thread EXCEPT ![s].cancelled = TRUE]
    /\ script_status' = [script_status EXCEPT ![s] = "cancelled"]
    /\ cancel_returned' = [cancel_returned EXCEPT ![s] = TRUE]
    /\ UNCHANGED <<scripts, parameters, context, last_result, ctx_parameters,
                   progress_callback, output_callback, scriptQueue, emitted,
                   script_ret, script_calls, notScriptVars>>

(***************************************************************************)
(* ScriptingEngine.                                                        *)
(***************************************************************************)
RegisterScript(s) ==
    /\ s \notin scripts
    /\ scripts' = scripts \cup {s}
    /\ UNCHANGED <<parameters, script_status, context, last_result, thread, ctx_parameters,
                   should_stop, progress_callback, output_callback, scriptQueue, emitted,
                   cancel_returned, script_ret, script_calls, notScriptVars>>

\* the loop over parameters.items(): every value goes through set_parameter_value
ParametersAfterSet(s, given) ==
    IF DOMAIN given = {} THEN ctx_parameters
    ELSE [ctx_parameters EXCEPT ![ContextForSet(s, context)] =
             [n \in Names |-> IF n \in DOMAIN given THEN given[n] ELSE @[n]]]

ContextAfterSet(s, given) ==
    IF DOMAIN given = {} THEN context
    ELSE [context EXCEPT ![s] = ContextForSet(s, context)]

\* `script.context = self.global_context`
EngineContext(s, cx) == [cx EXCEPT ![s] = "global"]

\* A ScriptContext that nothing references any more is forgotten, unless a
\* running worker is bound to it.
Collect(s, cxOld, cxNew, cp) ==
    IF cxOld[s] = Own(s) /\ cxNew[s] # Own(s) /\ thread[s].ctx # Own(s)
    THEN [cp EXCEPT ![Own(s)] = NoValues]
    ELSE cp

\* ScriptingEngine.execute_script(script_id, parameters)
ExecuteScriptUpTo(limit, s, given) ==
    IF s \in scripts
    THEN LET cx1 == ContextAfterSet(s, given)
             cp1 == ParametersAfterSet(s, given)
             cx2 == EngineContext(s, cx1)
         IN  ExecuteBodyUpTo(limit, s, "none", cx2, Collect(s, cx1, cx2, cp1),
                         [op |-> "execute_script", sid |-> s, ret |-> FALSE,
                          valid |-> SuppliesValid(parameters[s], given),
                          named |-> {}])
    ELSE /\ script_calls < limit
         /\ script_calls' = script_calls + 1
         /\ script_ret' = [op |-> "execute_script", sid |-> s, ret |-> FALSE,
                           valid |-> FALSE, named |-> {}]
         /\ UNCHANGED <<scripts, parameters, script_status, context, last_result, thread,
                        ctx_parameters, should_stop, progress_callback, output_callback,
                        scriptQueue, emitted, cancel_returned, notScriptVars>>

\* the call, in a model that makes up to MaxExecCalls calls
ExecuteScript(s, given) == ExecuteScriptUpTo(MaxExecCalls, s, given)

\* ScriptingEngine.cancel_script
CancelScript(s) == s \in scripts /\ Cancel(s)

(***************************************************************************)
(* ScriptExecutionThread.run (scripting.py:422-482).  The script body is    *)
(* any program over the context's primitives: it makes up to MaxBodyCalls  *)
(* calls of check_stop or set_progress and then returns or raises.         *)
(* pc: "start" before the namespace is built, "body" inside exec,          *)
(* "done" after run() has returned.                                        *)
(***************************************************************************)
scriptWorkerUnchanged == UNCHANGED <<scripts, parameters, script_status, context,
                                     last_result, ctx_parameters, should_stop,
                                     progress_callback, cancel_returned, script_ret,
                                     script_calls, notScriptVars>>

\* run() reads self.script.context, replaces its output_callback by
\* capture_output and binds the primitives to that context object
ScriptRunStart(s) ==
    /\ thread[s].pc = "start"
    /\ thread' = [thread EXCEPT ![s].pc = "body", ![s].ctx = context[s]]
    /\ output_callback' = [output_callback EXCEPT
                              ![context[s]] = [kind |-> "capture", script |-> s]]
    /\ UNCHANGED <<scriptQueue, emitted>>
    /\ scriptWorkerUnchanged

\* check_stop(): raises InterruptedError when should_stop is set, which run()
\* swallows
ScriptBodyCheckStop(s) ==
    /\ thread[s].pc = "body"
    /\ thread[s].calls < MaxBodyCalls
    /\ thread' = IF should_stop[thread[s].ctx]
                 THEN [thread EXCEPT ![s].pc = "done", ![s].outcome = "interrupted"]
                 ELSE [thread EXCEPT ![s].calls = @ + 1]
    /\ UNCHANGED <<output_callback, scriptQueue, emitted>>
    /\ scriptWorkerUnchanged

\* set_progress(p): calls the context's progress_callback, which emits
\* progress_updated of the script that installed it
ScriptBodySetProgress(s) ==
    /\ thread[s].pc = "body"
    /\ thread[s].calls < MaxBodyCalls
    /\ thread' = [thread EXCEPT ![s].calls = @ + 1]
    /\ emitted' = IF progress_callback[thread[s].ctx] = "none" THEN emitted
                  ELSE Emit(emitted, progress_callback[thread[s].ctx], "progress_updated")
    /\ UNCHANGED <<output_callback, scriptQueue>>
    /\ scriptWorkerUnchanged

\* log(message), also called by measure, acquire_waveform and wait: hands the
\* line to the context's output_callback, which is run()'s capture_output of
\* the script that installed it (appending to that run's output_buffer) or the
\* relay installed by execute (emitting output_updated)
ScriptBodyLog(s) ==
    /\ thread[s].pc = "body"
    /\ thread[s].calls < MaxBodyCalls
    /\ LET cb == output_callback[thread[s].ctx]
           m == Len(thread[s].logged) + 1
           t1 == [thread EXCEPT ![s].calls = @ + 1, ![s].logged = Append(@, m)]
       IN  /\ thread' = IF cb.kind = "capture"
                        THEN [t1 EXCEPT ![cb.script].output = Append(@, m)]
                        ELSE t1
           /\ emitted' = IF cb.kind = "relay"
                         THEN Emit(emitted, cb.script, "output_updated")
                         ELSE emitted
    /\ UNCHANGED <<output_callback, scriptQueue>>
    /\ scriptWorkerUnchanged

\* the body assigns its local name `result`
ResultValues == {IntV(10), StrV("CH1")}

ScriptBodyBindResult(s, v) ==
    /\ thread[s].pc = "body"
    /\ thread[s].calls < MaxBodyCalls
    /\ thread' = [thread EXCEPT ![s].calls = @ + 1, ![s].bound = TRUE, ![s].result = v]
    /\ UNCHANGED <<output_callback, scriptQueue, emitted>>
    /\ scriptWorkerUnchanged

\* `result = get_parameter(name)`: ScriptContext.get_parameter of the context
\* the primitives were bound to
ScriptBodyGetParameter(s, name) ==
    /\ thread[s].pc = "body"
    /\ thread[s].calls < MaxBodyCalls
    /\ thread' = [thread EXCEPT ![s].calls = @ + 1, ![s].bound = TRUE,
                                ![s].result = ctx_parameters[thread[s].ctx][name]]
    /\ UNCHANGED <<output_callback, scriptQueue, emitted>>
    /\ scriptWorkerUnchanged

\* The keys of exec_globals, and names of Python's builtins module, to which
\* the key '__builtins__' is bound.
ExecGlobals == {"__builtins__", "np", "context", "log", "measure", "acquire_waveform",
                "wait", "check_stop", "set_progress", "get_parameter"}
Builtins == {"open", "__import__", "len"}

\* name lookup in the body: the globals handed to exec, then the builtins
\* reachable through their '__builtins__' entry
Resolves(name) ==
    name \in ExecGlobals \/ ("__builtins__" \in ExecGlobals /\ name \in Builtins)

\* names a body may try to use besides the context's primitives; a name that
\* does not resolve raises NameError (ScriptBodyRaise)
LookupNames == {"open", "os"}

\* the body uses a name that resolves
ScriptBodyLookup(s, name) ==
    /\ thread[s].pc = "body"
    /\ thread[s].calls < MaxBodyCalls
    /\ Resolves(name)
    /\ thread' = [thread EXCEPT ![s].calls = @ + 1, ![s].reached = @ \cup {name}]
    /\ UNCHANGED <<output_callback, scriptQueue, emitted>>
    /\ scriptWorkerUnchanged

\* `return_value = exec_locals.get('result', None)`
ReturnValue(s) == IF thread[s].bound THEN thread[s].result ELSE None

\* `if not self.cancelled: self.<signal>.emit(...)`, queued to the script's slot;
\* execution_completed carries the ScriptResult, execution_failed the message
EmitUnlessCancelled(s, g) ==
    scriptQueue' = IF thread[s].cancelled THEN scriptQueue
                   ELSE Append(scriptQueue,
                               [sig |-> g, script |-> s,
                                rv |-> IF g = "execution_completed"
                                       THEN ReturnValue(s) ELSE None])

\* the body returns
ScriptBodyReturn(s) ==
    /\ thread[s].pc = "body"
    /\ thread' = [thread EXCEPT ![s].pc = "done", ![s].outcome = "returned"]
    /\ EmitUnlessCancelled(s, "execution_completed")
    /\ UNCHANGED <<output_callback, emitted>>
    /\ scriptWorkerUnchanged

\* the body raises an exception other than InterruptedError
ScriptBodyRaise(s) ==
    /\ thread[s].pc = "body"
    /\ thread' = [thread EXCEPT ![s].pc = "done", ![s].outcome = "raised"]
    /\ EmitUnlessCancelled(s, "execution_failed")
    /\ UNCHANGED <<output_callback, emitted>>
    /\ scriptWorkerUnchanged

\* the controller's event loop runs _on_execution_completed or
\* _on_execution_failed for the oldest queued signal
DeliverScriptEvent ==
    /\ scriptQueue # <<>>
    /\ LET ev == Head(scriptQueue) IN
          /\ script_status' = [script_status EXCEPT ![ev.script] =
                                  IF ev.sig = "execution_completed" THEN "completed"
                                                                     ELSE "failed"]
          /\ last_result' = [last_result EXCEPT ![ev.script] =
                                  IF ev.sig = "execution_completed"
                                  THEN [status |-> "completed", return_value |-> ev.rv,
                                        error |-> ""]
                                  ELSE [status |-> "failed", return_value |-> None,
                                        error |-> "Script execution error"]]
          /\ emitted' = Emit(emitted, ev.script, ev.sig)
    /\ scriptQueue' = Tail(scriptQueue)
    /\ UNCHANGED <<scripts, parameters, context, thread, ctx_parameters, should_stop,
                   progress_callback, output_callback, cancel_returned, script_ret,
                   script_calls, notScriptVars>>

(***************************************************************************)
(* Part 3: ScriptTemplate and create_script_from_template (scripting.py).  *)
(* A ScriptParameter is an object and a list of parameters is a list of    *)
(* references to such objects: two lists may hold the same object.         *)
(***************************************************************************)
MaxObjects == 3

Refs == 1..MaxObjects
NoObject == [alloc |-> FALSE, name |-> "", default_value |-> None]
NotCreated == [created |-> FALSE, parameters |-> <<>>]

\* the parameters of the waveform_analysis template (scripting.py:657-661)
TemplateChannel == [alloc |-> TRUE, name |-> "channel", default_value |-> StrV("CH1")]
TemplateWindow ==
    [alloc |-> TRUE, name |-> "window_function", default_value |-> StrV("hanning")]

\* values a caller assigns to default_value, and names of added parameters
DefaultValues == {StrV("CH1"), StrV("CH2"), StrV("hanning")}
AddedNames == {"averages"}

InitTemplate ==
    /\ objects = [r \in Refs |-> IF r = 1 THEN TemplateChannel
                                 ELSE IF r = 2 THEN TemplateWindow ELSE NoObject]
    /\ template_parameters = <<1, 2>>
    /\ instance_parameters = [s \in ScriptIds |-> NotCreated]
    /\ template_op = [op |-> "none", sid |-> ""]

\* list.copy(): a new list holding the same references
ListCopy(list) == list

\* create_script_from_template: script.parameters = template.parameters.copy()
CreateScriptFromTemplate(s) ==
    /\ ~instance_parameters[s].created
    /\ instance_parameters' = [instance_parameters EXCEPT ![s] =
           [created |-> TRUE, parameters |-> ListCopy(template_parameters)]]
    /\ template_op' = [op |-> "create_script_from_template", sid |-> s]
    /\ UNCHANGED <<objects, template_parameters, notTmplVars>>

\* the object a constructor call allocates
NewRef == CHOOSE r \in Refs : ~objects[r].alloc /\ \A q \in Refs : q < r => objects[q].alloc

\* script.add_parameter(ScriptParameter(name, ...)) on a script made from the
\* template: appends a new object to the script's list
InstanceAddParameter(s, name) ==
    /\ instance_parameters[s].created
    /\ \E r \in Refs : ~objects[r].alloc
    /\ objects' = [objects EXCEPT ![NewRef] =
                      [alloc |-> TRUE, name |-> name, default_value |-> None]]
    /\ instance_parameters' = [instance_parameters EXCEPT ![s].parameters =
                                  Append(@, NewRef)]
    /\ template_op' = [op |-> "add_parameter", sid |-> s]
    /\ UNCHANGED <<template_parameters, notTmplVars>>

\* script.parameters[i].default_value = v: assigns a field of the object that
\* the i-th entry of the script's list refers to
InstanceSetDefault(s, i, v) ==
    /\ instance_parameters[s].created
    /\ i \in 1..Len(instance_parameters[s].parameters)
    /\ objects[instance_parameters[s].parameters[i]].default_value # v
    /\ objects' = [objects EXCEPT ![instance_parameters[s].parameters[i]].default_value = v]
    /\ template_op' = [op |-> "set_field", sid |-> s]
    /\ UNCHANGED <<template_parameters, instance_parameters, notTmplVars>>

\* the parameter definitions seen through a list of references
Definitions(list) == [i \in 1..Len(list) |-> objects[list[i]]]
TemplateDefinitions == Definitions(template_parameters)
InstanceDefinitions(s) == Definitions(instance_parameters[s].parameters)

(***************************************************************************)
(* Part 4: ChannelGroup (multi_channel.py).  self.channels is a dict, which *)
(* keeps insertion order: it is modelled as the sequence of its values.     *)
(***************************************************************************)
ChannelIds == {"CH1", "CH2", "CH3"}
NoMaster == ""
ChannelRole == {"master", "slave", "reference", "trigger"}
SyncMode == {"trigger_sync", "time_sync"}

InitGroup ==
    /\ channels = <<>>
    /\ sync_config = [sync_mode |-> "trigger_sync", master_channel |-> "CH1"]
    /\ group_ret = [op |-> "none", ret |-> FALSE, master |-> NoMaster, overwrote |-> FALSE]

\* the keys of self.channels
Members(chs) == {chs[i].channel_id : i \in 1..Len(chs)}

\* [ch_id for ch_id, config in self.channels.items() if config.enabled]
EnabledChannels(chs) == SelectSeq(chs, LAMBDA c : c.enabled)

\* `if not self.sync_config.master_channel and channel_config.enabled`
Promotes(cfg) == sync_config.master_channel = NoMaster /\ cfg.enabled

\* ChannelGroup.add_channel(channel_config)
AddChannel(cfg) ==
    /\ IF cfg.channel_id \in Members(channels)
       THEN /\ group_ret' = [op |-> "add_channel", ret |-> FALSE, master |-> NoMaster,
                             overwrote |-> FALSE]
            /\ UNCHANGED <<channels, sync_config>>
       ELSE /\ channels' = Append(channels, IF Promotes(cfg)
                                            THEN [cfg EXCEPT !.role = "master"]
                                            ELSE cfg)
            /\ sync_config' = IF Promotes(cfg)
                              THEN [sync_config EXCEPT !.master_channel = cfg.channel_id]
                              ELSE sync_config
            /\ group_ret' = [op |-> "add_channel", ret |-> TRUE, master |-> NoMaster,
                             overwrote |-> FALSE]
    /\ UNCHANGED notGroupVars

\* ChannelGroup.remove_channel(channel_id)
RemoveChannel(id) ==
    /\ IF id \in Members(channels)
       THEN LET rest == SelectSeq(channels, LAMBDA c : c.channel_id # id)
                en == EnabledChannels(rest)
            IN  /\ IF sync_config.master_channel = id
                   THEN IF en # <<>>
                        THEN /\ sync_config' = [sync_config EXCEPT
                                                   !.master_channel = en[1].channel_id]
                             /\ channels' = [i \in 1..Len(rest) |->
                                    IF rest[i].channel_id = en[1].channel_id
                                    THEN [rest[i] EXCEPT !.role = "master"]
                                    ELSE rest[i]]
                        ELSE /\ sync_config' = [sync_config EXCEPT
                                                   !.master_channel = NoMaster]
                             /\ channels' = rest
                   ELSE /\ channels' = rest
                        /\ UNCHANGED sync_config
                /\ group_ret' = [op |-> "remove_channel", ret |-> TRUE,
                                 master |-> NoMaster, overwrote |-> FALSE]
       ELSE /\ group_ret' = [op |-> "remove_channel", ret |-> FALSE,
                             master |-> NoMaster, overwrote |-> FALSE]
            /\ UNCHANGED <<channels, sync_config>>
    /\ UNCHANGED notGroupVars

SyncConfigAcceptedAlways(cfg) == TRUE

\* set_sync_config does not raise: the new config names no master, or a member
SyncConfigAccepted(cfg) ==
    cfg.master_channel = NoMaster \/ cfg.master_channel \in Members(channels)

\* the role that set_sync_config assigns to a channel
RoleUnder(cfg, id) == IF id = cfg.master_channel THEN "master" ELSE "slave"

\* ChannelGroup.set_sync_config(sync_config)
SetSyncConfig(cfg) ==
    /\ IF SyncConfigAccepted(cfg)
       THEN /\ sync_config' = cfg
            /\ channels' = [i \in 1..Len(channels) |->
                   [channels[i] EXCEPT !.role = RoleUnder(cfg, channels[i].channel_id)]]
            /\ group_ret' = [op |-> "set_sync_config", ret |-> TRUE,
                             master |-> cfg.master_channel,
                             overwrote |-> \E i \in 1..Len(channels) :
                                 channels[i].role \in {"reference", "trigger"}]
       ELSE /\ group_ret' = [op |-> "set_sync_config", ret |-> FALSE,
                             master |-> cfg.master_channel, overwrote |-> FALSE]
            /\ UNCHANGED <<channels, sync_config>>
    /\ UNCHANGED notGroupVars

(***************************************************************************)
(* Part 5: AdvancedTriggerManager (advanced_triggers.py:181-500).          *)
(* Every method runs on the controller's thread, the timer's timeout       *)
(* included: each is one action.                                           *)
(***************************************************************************)
MaxFired == 2

TriggerIds == {"T1", "T2"}

\* class TriggerMode
TriggerMode == {"auto", "normal", "single", "force"}

\* self.active_trigger: Optional[str] = None
NoActiveTrigger == "None"

\* a key that self.triggers does not hold
NotRegistered == [registered |-> FALSE, trigger_mode |-> "auto", enabled |-> FALSE,
                  complete |-> FALSE]

InitTrigger ==
    /\ triggers = [id \in TriggerIds |-> NotRegistered]
    /\ active_trigger = NoActiveTrigger
    /\ trigger_timer = FALSE
    /\ activation = [id |-> NoActiveTrigger, fired |-> 0]
    /\ trigger_ret = [op |-> "none", id |-> NoActiveTrigger, ret |-> FALSE,
                      deactivated |-> NoActiveTrigger]

\* register_trigger(trigger).  `complete` says that the parameters of the
\* trigger's conditions hold every key that _setup_*_trigger reads.
RegisterTrigger(id, mode, en, cmpl) ==
    /\ IF triggers[id].registered
       THEN UNCHANGED triggers
       ELSE triggers' = [triggers EXCEPT ![id] =
                [registered |-> TRUE, trigger_mode |-> mode, enabled |-> en,
                 complete |-> cmpl]]
    /\ trigger_ret' = [op |-> "register_trigger", id |-> id,
                       ret |-> ~triggers[id].registered,
                       deactivated |-> NoActiveTrigger]
    /\ UNCHANGED <<active_trigger, trigger_timer, activation, notTrigVars>>

DeactivateKeepsPolling ==
    /\ active_trigger' = NoActiveTrigger
    /\ UNCHANGED trigger_timer

\* deactivate_trigger, for an active trigger:
\* self.trigger_timer.stop(); self.active_trigger = None
StopAndClear ==
    /\ trigger_timer' = FALSE
    /\ active_trigger' = NoActiveTrigger

\* deactivate_trigger()
DeactivateTrigger ==
    /\ IF active_trigger # NoActiveTrigger
       THEN StopAndClear
       ELSE UNCHANGED <<active_trigger, trigger_timer>>
    /\ trigger_ret' = [op |-> "deactivate_trigger", id |-> active_trigger,
                       ret |-> active_trigger # NoActiveTrigger,
                       deactivated |-> active_trigger]
    /\ UNCHANGED <<triggers, activation, notTrigVars>>

\* activate_trigger raises before it touches the active trigger
ActivateRejected(id) == ~triggers[id].registered \/ ~triggers[id].enabled

\* activate_trigger(trigger_id).  _setup_trigger_conditions raises KeyError for
\* incomplete condition parameters, after the active trigger was deactivated.
ActivateTrigger(id) ==
    /\ IF ActivateRejected(id)
       THEN /\ UNCHANGED <<active_trigger, trigger_timer, activation>>
            /\ trigger_ret' = [op |-> "activate_trigger", id |-> id, ret |-> FALSE,
                               deactivated |-> NoActiveTrigger]
       ELSE IF ~triggers[id].complete
       THEN /\ IF active_trigger # NoActiveTrigger
               THEN StopAndClear
               ELSE UNCHANGED <<active_trigger, trigger_timer>>
            /\ UNCHANGED activation
            /\ trigger_ret' = [op |-> "activate_trigger", id |-> id, ret |-> FALSE,
                               deactivated |-> active_trigger]
       ELSE /\ active_trigger' = id
            /\ trigger_timer' = TRUE
            /\ activation' = [id |-> id, fired |-> 0]
            /\ trigger_ret' = [op |-> "activate_trigger", id |-> id, ret |-> TRUE,
                               deactivated |-> active_trigger]
    /\ UNCHANGED <<triggers, notTrigVars>>

SingleShotNever(trigger) == FALSE

\* `if trigger.trigger_mode == TriggerMode.SINGLE`
SingleShot(trigger) == trigger.trigger_mode = "single"

\* The timer's timeout: _check_trigger_conditions, where met is the value of
\* _simulate_trigger_check.
CheckTriggerConditions(met) ==
    /\ trigger_timer
    /\ IF active_trigger = NoActiveTrigger \/ ~met
       THEN /\ UNCHANGED <<active_trigger, trigger_timer, activation>>
            /\ trigger_ret' = [op |-> "_check_trigger_conditions",
                               id |-> active_trigger, ret |-> FALSE,
                               deactivated |-> NoActiveTrigger]
       ELSE /\ activation.fired < MaxFired
            /\ activation' = [activation EXCEPT !.fired = @ + 1]
            /\ IF SingleShot(triggers[active_trigger])
               THEN StopAndClear
               ELSE UNCHANGED <<active_trigger, trigger_timer>>
            /\ trigger_ret' = [op |-> "_check_trigger_conditions",
                               id |-> active_trigger, ret |-> TRUE,
                               deactivated |->
                                  IF SingleShot(triggers[active_trigger])
                                  THEN active_trigger ELSE NoActiveTrigger]
    /\ UNCHANGED <<triggers, notTrigVars>>

(***************************************************************************)
(* Part 6: ChannelGroup acquisition (multi_channel.py:223-529, 581-618).   *)
(* The methods of the group run on the controller's thread.  One pass of   *)
(* the acquisition thread's loop reads no state that the controller writes *)
(* except self.running: it is one action, and stop_acquisition, which      *)
(* waits for the thread, finds it at the head of its loop.                 *)
(***************************************************************************)
MaxCaptures == 2
MaxQueued == 1

\* self.max_buffer_size = 100
max_buffer_size == 100

\* the methods of the collaborator that the model tells apart
Capabilities == {"trigger_single", "is_acquisition_complete", "get_waveform_data",
                 "enable_phase_sync", "set_phase_reference"}

\* self.oscilloscope = None
NoOscilloscope == [connected |-> FALSE, caps |-> {}]

\* The collaborators of the model: one with every method, one with none, one
\* for each missing method of the acquisition itself, and one that can enable
\* phase synchronisation but has no set_phase_reference.
Oscilloscopes ==
    {[connected |-> TRUE, caps |-> c] :
        c \in {Capabilities, {},
               Capabilities \ {"trigger_single"},
               Capabilities \ {"is_acquisition_complete"},
               Capabilities \ {"get_waveform_data"},
               Capabilities \ {"set_phase_reference"}}}

\* a present MultiChannelData is truthy; None
NoCapture == [id |-> 0, channels |-> {}, simulated |-> FALSE]

NoCall == [op |-> "none", ret |-> NoCapture, ok |-> FALSE, performed |-> FALSE,
           wait |-> "none", error |-> ""]

InitAcquisition ==
    /\ oscilloscope = NoOscilloscope
    /\ is_acquiring = FALSE
    /\ acquisition_thread = FALSE
    /\ last_acquisition = NoCapture
    /\ data_buffer = <<>>
    /\ captures = 0
    /\ acqQueue = <<>>
    /\ acq_ret = NoCall

\* group.oscilloscope = osc
SetOscilloscope(osc) ==
    /\ oscilloscope' = osc
    /\ acq_ret' = [NoCall EXCEPT !.op = "set_oscilloscope"]
    /\ UNCHANGED <<is_acquiring, acquisition_thread, last_acquisition, data_buffer,
                   captures, acqQueue, notAcqVars>>

\* _setup_synchronized_acquisition: the message of the exception it raises, or
\* "" when it returns.  Every configure call is guarded by hasattr, except
\* set_phase_reference, which is guarded by hasattr of enable_phase_sync.
SetupError ==
    IF ~oscilloscope.connected THEN "No oscilloscope connected"
    ELSE IF /\ sync_config.sync_mode = "phase_sync"
            /\ "enable_phase_sync" \in oscilloscope.caps
            /\ "set_phase_reference" \notin oscilloscope.caps
         THEN "object has no attribute 'set_phase_reference'"
         ELSE ""

\* The poll loop of _perform_synchronized_acquisition: the collaborator
\* reports completion within the timeout ("complete"), reports none for the
\* whole timeout ("timeout"), or is not asked because it has no
\* is_acquisition_complete ("unpolled"): the loop sleeps until the timeout.
WaitOutcomes ==
    IF "is_acquisition_complete" \in oscilloscope.caps
    THEN {"complete", "timeout"}
    ELSE {"unpolled"}

\* `else: raise TimeoutError("Acquisition timeout")`: the loop ended without break
WaitRaises(w) == w # "complete"

\* _perform_synchronized_acquisition(acquisition_id) of the n-th capture: the
\* TimeoutError is caught by the method's own `except Exception`, which returns
\* None; otherwise there is data for every enabled channel, placeholder data
\* without get_waveform_data.
PerformSynchronizedAcquisition(n, w) ==
    IF WaitRaises(w) THEN NoCapture
    ELSE [id |-> n,
          channels |-> Members(EnabledChannels(channels)),
          simulated |-> "get_waveform_data" \notin oscilloscope.caps]

\* _add_to_buffer(data)
AddToBuffer(buf, data) ==
    LET b == Append(buf, data)
    IN  IF Len(b) > max_buffer_size THEN Tail(b) ELSE b

SingleRefusedNever == FALSE

\* `if self.is_acquiring: ... return None`
SingleRefused == is_acquiring

\* acquire_single()
AcquireSingle ==
    /\ IF SingleRefused
       THEN /\ acq_ret' = [NoCall EXCEPT !.op = "acquire_single"]
            /\ UNCHANGED <<last_acquisition, data_buffer, captures>>
       ELSE IF SetupError # ""
       THEN /\ acq_ret' = [NoCall EXCEPT !.op = "acquire_single", !.error = SetupError]
            /\ UNCHANGED <<last_acquisition, data_buffer, captures>>
       ELSE \E w \in WaitOutcomes :
              LET data == PerformSynchronizedAcquisition(captures + 1, w) IN
              /\ acq_ret' = [NoCall EXCEPT !.op = "acquire_single", !.ret = data,
                                           !.ok = data # NoCapture,
                                           !.performed = TRUE, !.wait = w]
              /\ IF data # NoCapture
                 THEN /\ last_acquisition' = data
                      /\ data_buffer' = AddToBuffer(data_buffer, data)
                      /\ captures' = captures + 1
                 ELSE UNCHANGED <<last_acquisition, data_buffer, captures>>
    /\ UNCHANGED <<oscilloscope, is_acquiring, acquisition_thread, acqQueue, notAcqVars>>

\* start_acquisition: the message of the exception raised in its try block
StartError ==
    IF is_acquiring THEN "Acquisition already in progress"
    ELSE IF channels = <<>> THEN "No channels configured"
    ELSE IF EnabledChannels(channels) = <<>> THEN "No enabled channels"
    ELSE SetupError

\* start_acquisition()
StartAcquisition ==
    /\ IF StartError # ""
       THEN /\ acq_ret' = [NoCall EXCEPT !.op = "start_acquisition", !.error = StartError]
            /\ UNCHANGED <<is_acquiring, acquisition_thread>>
       ELSE /\ acquisition_thread' = TRUE
            /\ is_acquiring' = TRUE
            /\ acq_ret' = [NoCall EXCEPT !.op = "start_acquisition", !.ok = TRUE]
    /\ UNCHANGED <<oscilloscope, last_acquisition, data_buffer, captures, acqQueue,
                   notAcqVars>>

\* stop_acquisition()
StopAcquisition ==
    /\ IF is_acquiring /\ acquisition_thread
       THEN /\ acquisition_thread' = FALSE
            /\ is_acquiring' = FALSE
            /\ acq_ret' = [NoCall EXCEPT !.op = "stop_acquisition", !.ok = TRUE]
       ELSE /\ acq_ret' = [NoCall EXCEPT !.op = "stop_acquisition"]
            /\ UNCHANGED <<is_acquiring, acquisition_thread>>
    /\ UNCHANGED <<oscilloscope, last_acquisition, data_buffer, captures, acqQueue,
                   notAcqVars>>

\* One pass of MultiChannelAcquisitionThread.run: `if data:` the capture is
\* emitted, which queues it for the group's slot.
AcquisitionThreadRun ==
    /\ acquisition_thread
    /\ Len(acqQueue) < MaxQueued
    /\ \E w \in WaitOutcomes :
          LET data == PerformSynchronizedAcquisition(captures + 1, w) IN
          /\ acq_ret' = [NoCall EXCEPT !.op = "run", !.performed = TRUE, !.wait = w]
          /\ IF data # NoCapture
             THEN /\ acqQueue' = Append(acqQueue, data)
                  /\ captures' = captures + 1
             ELSE UNCHANGED <<acqQueue, captures>>
    /\ UNCHANGED <<oscilloscope, is_acquiring, acquisition_thread, last_acquisition,
                   data_buffer, notAcqVars>>

\* _on_data_acquired(data), run by the event loop for the oldest queued signal
OnDataAcquired ==
    /\ acqQueue # <<>>
    /\ last_acquisition' = Head(acqQueue)
    /\ data_buffer' = AddToBuffer(data_buffer, Head(acqQueue))
    /\ acqQueue' = Tail(acqQueue)
    /\ acq_ret' = [NoCall EXCEPT !.op = "_on_data_acquired"]
    /\ UNCHANGED <<oscilloscope, is_acquiring, acquisition_thread, captures, notAcqVars>>

(***************************************************************************)
(* Part 7: ChannelGroup._analyze_synchronization (multi_channel.py:475-511) *)
(* for a master and one slave channel.  Voltages are integers; the scores, *)
(* floats in the code, are kept as exact fractions.                        *)
(***************************************************************************)
MaxSamples == 3

\* the voltages of a sample
Voltages == {-1, 0, 1}

Waveforms == UNION {[1..n -> Voltages] : n \in 1..MaxSamples}

\* 1 / (sample_rate * timing_tolerance) for TimingConfig.sample_rate = 1e6 and
\* SyncConfig.timing_tolerance = 1e-9: the tolerances in one sample period
TolerancesPerSample == 1000

\* float('nan')
NaN == [nan |-> TRUE, num |-> 0, den |-> 1]

Fraction(a, b) == [nan |-> FALSE, num |-> a, den |-> b]

NoQuality == [computed |-> FALSE, lag |-> 0, timing |-> NaN, amplitude |-> NaN]

\* no capture yet
NoVoltageData == [master |-> <<>>, slave |-> <<>>]

InitQuality ==
    /\ voltage_data = NoVoltageData
    /\ sync_quality = NoQuality

\* get_waveform_data of the collaborator for the two channels of the capture:
\* arrays of the same record length
SetWaveforms(x, y) ==
    /\ voltage_data = NoVoltageData
    /\ Len(x) = Len(y)
    /\ voltage_data' = [master |-> x, slave |-> y]
    /\ UNCHANGED <<sync_quality, notQualVars>>

Abs(x) == IF x < 0 THEN -x ELSE x

RECURSIVE SumSeq(_)
SumSeq(s) == IF s = <<>> THEN 0 ELSE Head(s) + SumSeq(Tail(s))

\* np.correlate(a, v, mode='full'): entry idx (from 0) is the sum of
\* a[n + k] * v[n] over the overlap, for the lag k = idx - (len(v) - 1)
Correlate(a, v) ==
    [i \in 1..(Len(a) + Len(v) - 1) |->
        LET k == (i - 1) - (Len(v) - 1)
        IN  SumSeq([n \in 1..Len(v) |->
                       IF n + k \in 1..Len(a) THEN a[n + k] * v[n] ELSE 0])]

\* np.argmax(np.abs(c)): the first index (from 0) of a largest entry
ArgMaxAbs(c) ==
    (CHOOSE i \in 1..Len(c) :
        /\ \A j \in 1..Len(c) : Abs(c[j]) <= Abs(c[i])
        /\ \A j \in 1..(i - 1) : Abs(c[j]) < Abs(c[i])) - 1

\* max_corr_idx - len(ref_data.voltage_data) + 1, the offset in samples
LagOfMaximum(ref, ch) == ArgMaxAbs(Correlate(ref, ch)) - Len(ref) + 1

\* 1.0 / (1.0 + abs(time_offset) / timing_tolerance)
TimingQuality(lag) == Fraction(1, 1 + Abs(lag) * TolerancesPerSample)

\* n times the covariance of x and y
Covariance(x, y) ==
    Len(x) * SumSeq([i \in 1..Len(x) |-> x[i] * y[i]]) - SumSeq(x) * SumSeq(y)

\* abs(np.corrcoef(x, y)[0, 1]): cov(x, y) / sqrt(var(x) * var(y)), which is
\* 0/0 = nan when one of the arrays is constant.  The fraction is the square
\* of the score.
AmplitudeCorrelation(x, y) ==
    IF Covariance(x, x) * Covariance(y, y) = 0 THEN NaN
    ELSE Fraction(Covariance(x, y) * Covariance(x, y),
                  Covariance(x, x) * Covariance(y, y))

\* _analyze_synchronization for the capture's two channels
AnalyzeSynchronization ==
    /\ voltage_data # NoVoltageData
    /\ ~sync_quality.computed
    /\ sync_quality' =
          [computed |-> TRUE,
           lag |-> LagOfMaximum(voltage_data.master, voltage_data.slave),
           timing |-> TimingQuality(LagOfMaximum(voltage_data.master,
                                                 voltage_data.slave)),
           amplitude |-> AmplitudeCorrelation(voltage_data.master,
                                              voltage_data.slave)]
    /\ UNCHANGED <<voltage_data, notQualVars>>

(***************************************************************************)
(* Part 8: the code of the frequency_sweep template (scripting.py:536-577), *)
(* run by a worker for a script whose parameters passed validation.        *)
(* Frequencies are integers chosen so that every linspace step is exact.   *)
(***************************************************************************)
MaxPoints == 4

\* start_frequency and stop_frequency: floats with min_value=1.0
SweepFrequencies == {100, 1000}

\* the values of num_points that validate_parameters accepts against the
\* template's declaration (min_value=2, max_value=1000)
SweepPoints == {k \in 0..MaxPoints : RangeErrors(NumPointsParam, IntV(k)) = <<>>}

NoSweep == [pc |-> "idle", start_freq |-> 0, stop_freq |-> 0, num_points |-> 0,
            frequencies |-> <<>>, i |-> 0, amplitudes |-> 0, calls |-> <<>>,
            should_stop |-> FALSE, progress |-> 0, result |-> <<>>]

InitSweep == sweep = NoSweep

\* np.linspace(start, stop, num): num samples start + j * (stop - start) / (num - 1),
\* the last one set to stop; a single sample is start
Linspace(a, b, num) ==
    [j \in 1..num |->
        IF num > 1 /\ j = num THEN b
        ELSE IF num > 1 THEN a + (j - 1) * ((b - a) \div (num - 1))
        ELSE a]

\* the get_parameter calls and `frequencies = np.linspace(...)`; `amplitudes = []`
SweepStart(a, b, num) ==
    /\ sweep.pc = "idle"
    /\ sweep' = [sweep EXCEPT !.pc = "loop", !.start_freq = a, !.stop_freq = b,
                              !.num_points = num,
                              !.frequencies = Linspace(a, b, num)]
    /\ UNCHANGED notSweepVars

\* AutomationScript.cancel: self.context.should_stop = True
SweepCancel ==
    /\ sweep.pc \in {"loop", "measure"}
    /\ ~sweep.should_stop
    /\ sweep' = [sweep EXCEPT !.should_stop = TRUE]
    /\ UNCHANGED notSweepVars

SweepLoopOverEarly(sw) == sw.i + 1 >= Len(sw.frequencies)

\* `for i, freq in enumerate(frequencies)` has no further element
SweepLoopOver(sw) == sw.i = Len(sw.frequencies)

\* the head of an iteration: check_stop(), which raises InterruptedError when
\* should_stop is set
SweepCheckStop ==
    /\ sweep.pc = "loop"
    /\ ~SweepLoopOver(sweep)
    /\ sweep' = IF sweep.should_stop
                THEN [sweep EXCEPT !.pc = "interrupted",
                                   !.calls = Append(@, "check_stop")]
                ELSE [sweep EXCEPT !.pc = "measure",
                                   !.calls = Append(@, "check_stop")]
    /\ UNCHANGED notSweepVars

\* the rest of the iteration: log, wait(0.1), measure("amplitude", channel),
\* amplitudes.append, set_progress((i + 1) / len(frequencies))
SweepMeasure ==
    /\ sweep.pc = "measure"
    /\ sweep' = [sweep EXCEPT !.pc = "loop",
                              !.calls = Append(@, "measure"),
                              !.amplitudes = @ + 1,
                              !.i = @ + 1,
                              !.progress = sweep.i + 1]
    /\ UNCHANGED notSweepVars

\* after the loop: result = {"frequencies": frequencies.tolist(), "amplitudes": ...}
SweepFinish ==
    /\ sweep.pc = "loop"
    /\ SweepLoopOver(sweep)
    /\ sweep' = [sweep EXCEPT !.pc = "done", !.result = sweep.frequencies]
    /\ UNCHANGED notSweepVars

(***************************************************************************)
(* Part 9: MeasurementSequence.to_dict / from_dict and                     *)
(* AutomationEngine.load_sequence (automation.py:318-362, 642-657).        *)
(* A dictionary is a record whose domain is its set of keys; the dicts     *)
(* held in fields (parameters, conditions, variables) are sets of          *)
(* <<key, value>> pairs; float seconds are integers.                       *)
(***************************************************************************)
MaxDocSteps == 2
MaxLoads == 2

\* the members of the enum StepType and StepType.<member>.value
StepTypeMembers == {"MEASUREMENT", "DELAY", "CONDITION", "SET_PARAMETER",
                    "TRIGGER_SETUP", "DATA_ACQUISITION", "ANALYSIS", "EXPORT"}

StepTypeValue(member) ==
    CASE member = "MEASUREMENT"      -> "measurement"
      [] member = "DELAY"            -> "delay"
      [] member = "CONDITION"        -> "condition"
      [] member = "SET_PARAMETER"    -> "set_parameter"
      [] member = "TRIGGER_SETUP"    -> "trigger_setup"
      [] member = "DATA_ACQUISITION" -> "data_acquisition"
      [] member = "ANALYSIS"         -> "analysis"
      [] member = "EXPORT"           -> "export"

ValueError == "ValueError"

StepTypeLookupDefault(value) ==
    IF \E member \in StepTypeMembers : StepTypeValue(member) = value
    THEN CHOOSE member \in StepTypeMembers : StepTypeValue(member) = value
    ELSE "MEASUREMENT"

\* StepType(value): the member with that value; ValueError when there is none
StepTypeLookup(value) ==
    IF \E member \in StepTypeMembers : StepTypeValue(member) = value
    THEN CHOOSE member \in StepTypeMembers : StepTypeValue(member) = value
    ELSE ValueError

\* dict.get(key, default)
Get(d, key, default) == IF key \in DOMAIN d THEN d[key] ELSE default

\* MeasurementStep objects a caller adds: one with the dataclass defaults, one
\* with no field at its default and a type without executor
DefaultStep ==
    [step_id |-> "step_0", step_type |-> "MEASUREMENT", name |-> "Measure",
     parameters |-> {}, conditions |-> {}, timeout |-> 30, retry_count |-> 0,
     enabled |-> TRUE, description |-> ""]
ExportStep ==
    [step_id |-> "step_1", step_type |-> "EXPORT", name |-> "Export",
     parameters |-> {<<"format", "csv">>}, conditions |-> {<<"if", "ok">>},
     timeout |-> 5, retry_count |-> 2, enabled |-> FALSE, description |-> "to disk"]
WholeSteps == {DefaultStep, ExportStep}

SequenceIds == {SeqId, "seq2"}
SequenceNames == {"", "Sweep"}
VariableMaps == {{}, {<<"x", "1">>}}
GlobalTimeouts == {300, 60}

NoSequenceObj ==
    [sequence_id |-> "", name |-> "", steps |-> <<>>, variables |-> {},
     global_timeout |-> 0]
NoDocument == [none |-> TRUE]
NoId == "None"
NoLoad == [op |-> "none", data |-> NoDocument, ret |-> NoId, n |-> 0]

InitDocument ==
    /\ sequence_obj = NoSequenceObj
    /\ document = NoDocument
    /\ reloaded = NoSequenceObj
    /\ loaded = <<>>
    /\ load_ret = NoLoad

\* MeasurementSequence(sequence_id, name): self.name = name or sequence_id
NewSequenceObj(id, name) ==
    [sequence_id |-> id, name |-> IF name = "" THEN id ELSE name, steps |-> <<>>,
     variables |-> {}, global_timeout |-> 300]

\* the entry of 'steps' that to_dict makes of a step
ToDictStep(step) ==
    [step_id |-> step.step_id, step_type |-> StepTypeValue(step.step_type),
     name |-> step.name, parameters |-> step.parameters,
     conditions |-> step.conditions, timeout |-> step.timeout,
     retry_count |-> step.retry_count, enabled |-> step.enabled,
     description |-> step.description]

\* MeasurementSequence.to_dict
ToDict(sq) ==
    [sequence_id |-> sq.sequence_id, name |-> sq.name,
     steps |-> [i \in 1..Len(sq.steps) |-> ToDictStep(sq.steps[i])],
     variables |-> sq.variables, global_timeout |-> sq.global_timeout]

StepFromDictNoRetry(step_data) ==
    [step_id |-> step_data.step_id,
     step_type |-> StepTypeLookup(step_data.step_type),
     name |-> step_data.name,
     parameters |-> Get(step_data, "parameters", {}),
     conditions |-> Get(step_data, "conditions", {}),
     timeout |-> Get(step_data, "timeout", 30),
     retry_count |-> 0,
     enabled |-> Get(step_data, "enabled", TRUE),
     description |-> Get(step_data, "description", "")]

\* the MeasurementStep that from_dict makes of an entry of 'steps'
StepFromDict(step_data) ==
    [step_id |-> step_data.step_id,
     step_type |-> StepTypeLookup(step_data.step_type),
     name |-> step_data.name,
     parameters |-> Get(step_data, "parameters", {}),
     conditions |-> Get(step_data, "conditions", {}),
     timeout |-> Get(step_data, "timeout", 30),
     retry_count |-> Get(step_data, "retry_count", 0),
     enabled |-> Get(step_data, "enabled", TRUE),
     description |-> Get(step_data, "description", "")]

\* making the step raises: KeyError for a missing 'step_id', 'step_type' or
\* 'name', ValueError from StepType(...)
StepRaises(step_data) ==
    \/ ~({"step_id", "step_type", "name"} \subseteq DOMAIN step_data)
    \/ StepTypeLookup(step_data.step_type) = ValueError

\* from_dict raises: KeyError for a missing 'sequence_id', or a step raises
FromDictRaises(data) ==
    \/ "sequence_id" \notin DOMAIN data
    \/ \E i \in 1..Len(Get(data, "steps", <<>>)) : StepRaises(data.steps[i])

\* MeasurementSequence.from_dict, when it returns
FromDict(data) ==
    [sequence_id |-> data.sequence_id,
     name |-> NewSequenceObj(data.sequence_id, Get(data, "name", "")).name,
     steps |-> [i \in 1..Len(Get(data, "steps", <<>>)) |-> StepFromDict(data.steps[i])],
     variables |-> Get(data, "variables", {}),
     global_timeout |-> Get(data, "global_timeout", 300)]

\* The caller builds a sequence, then serialises it: the object is not changed
\* once to_dict has been called.
NewSequence(id, name) ==
    /\ sequence_obj = NoSequenceObj
    /\ sequence_obj' = NewSequenceObj(id, name)
    /\ UNCHANGED <<document, reloaded, loaded, load_ret, notDocVars>>

\* sequence.variables[...] = ... / sequence.global_timeout = ...
SetVariables(v) ==
    /\ sequence_obj # NoSequenceObj /\ document = NoDocument
    /\ sequence_obj.variables = {} /\ v # {}
    /\ sequence_obj' = [sequence_obj EXCEPT !.variables = v]
    /\ UNCHANGED <<document, reloaded, loaded, load_ret, notDocVars>>

SetGlobalTimeout(t) ==
    /\ sequence_obj # NoSequenceObj /\ document = NoDocument
    /\ sequence_obj.global_timeout = 300 /\ t # 300
    /\ sequence_obj' = [sequence_obj EXCEPT !.global_timeout = t]
    /\ UNCHANGED <<document, reloaded, loaded, load_ret, notDocVars>>

\* add_step(step) with a whole MeasurementStep
AddWholeStep(step) ==
    /\ sequence_obj # NoSequenceObj /\ document = NoDocument
    /\ Len(sequence_obj.steps) < MaxDocSteps
    /\ sequence_obj' = [sequence_obj EXCEPT !.steps = Append(@, step)]
    /\ UNCHANGED <<document, reloaded, loaded, load_ret, notDocVars>>

ToDictCall ==
    /\ sequence_obj # NoSequenceObj /\ document = NoDocument
    /\ document' = ToDict(sequence_obj)
    /\ UNCHANGED <<sequence_obj, reloaded, loaded, load_ret, notDocVars>>

FromDictCall ==
    /\ document # NoDocument /\ reloaded = NoSequenceObj
    /\ ~FromDictRaises(document)
    /\ reloaded' = FromDict(document)
    /\ UNCHANGED <<sequence_obj, document, loaded, load_ret, notDocVars>>

\* Documents read by json.load from files not written by save_sequence: steps
\* with the three mandatory keys only, a type tag that is no StepType value, a
\* member's name used as tag, a step without 'name', an id that may be taken.
MinimalStep(id, tag) == [step_id |-> id, step_type |-> tag, name |-> id]
FileDocuments ==
    { [sequence_id |-> "seq2", steps |-> <<MinimalStep("a", "delay")>>],
      [sequence_id |-> SeqId, name |-> "Taken", steps |-> <<MinimalStep("a", "export")>>],
      [sequence_id |-> "seq2",
       steps |-> <<MinimalStep("a", "delay"), MinimalStep("b", "calibrate")>>],
      [sequence_id |-> "seq3", steps |-> <<MinimalStep("a", "MEASUREMENT")>>],
      [sequence_id |-> "seq3", steps |-> <<[step_id |-> "a", step_type |-> "delay"]>>] }

\* AutomationEngine.load_sequence on a file holding `data`: from_dict, then
\* register_sequence, which refuses an id that is registered; every exception
\* is caught and None returned
LoadSequence(data) ==
    /\ load_ret.n < MaxLoads
    /\ LET registers == /\ ~FromDictRaises(data)
                        /\ data.sequence_id \notin sequences
       IN  /\ sequences' = IF registers THEN sequences \cup {data.sequence_id}
                           ELSE sequences
           /\ loaded' = IF registers THEN Append(loaded, FromDict(data)) ELSE loaded
           /\ load_ret' = [op |-> "load_sequence", data |-> data,
                           ret |-> IF registers THEN data.sequence_id ELSE NoId,
                           n |-> load_ret.n + 1]
    /\ UNCHANGED <<sequence_obj, document, reloaded>>
    /\ UNCHANGED <<steps, status, current_step_index, result, execution_thread, paused,
                   cancelled, pc, idx, active_sequences, mainQueue, history, lastOp,
                   threads_created, rejected>>
    /\ UNCHANGED <<scriptVars, tmplVars, groupVars, trigVars, acqVars, qualVars,
                   sweepVars>>

Init ==
    /\ InitSequence /\ InitScript /\ InitTemplate /\ InitGroup /\ InitTrigger
    /\ InitAcquisition /\ InitQuality /\ InitSweep /\ InitDocument

(***************************************************************************)
(* Specifications.                                                         *)
(***************************************************************************)
\* A MeasurementSequence driven directly by its owner.
Next ==
    \/ \E t \in StepTypes, e \in BOOLEAN : AddStep(t, e)
    \/ StartExecution
    \/ PauseExecution
    \/ ResumeExecution
    \/ CancelExecution
    \/ WorkerStep
    \/ DeliverEvent

Spec == Init /\ [][Next]_vars

\* A MeasurementSequence of measurement, delay and condition steps.
NextSteps ==
    \/ AddStep("measurement", TRUE)
    \/ AddDelayStep
    \/ \E c \in ConditionLiterals, a \in ConditionActions \ {"continue"} :
          AddConditionStep(c, a)
    \/ StartExecution
    \/ PauseExecution
    \/ ResumeExecution
    \/ CancelExecution
    \/ WorkerStep
    \/ DeliverEvent

SpecSteps == Init /\ [][NextSteps]_vars

\* A MeasurementSequence holding steps of the two StepType members that
\* execute_step has no branch for.
NextExecutor ==
    \/ AddStep("measurement", TRUE)
    \/ \E t \in NoExecutorTypes, e \in BOOLEAN : AddStep(t, e)
    \/ StartExecution
    \/ PauseExecution
    \/ ResumeExecution
    \/ CancelExecution
    \/ WorkerStep
    \/ DeliverEvent

SpecExecutor == Init /\ [][NextExecutor]_vars

\* A MeasurementSequence whose steps carry a retry_count.
NextRetry ==
    \/ \E r \in 0..MaxRetry : AddStepWithRetry(r)
    \/ StartExecution
    \/ PauseExecution
    \/ ResumeExecution
    \/ CancelExecution
    \/ WorkerStep
    \/ DeliverEvent

SpecRetry == Init /\ [][NextRetry]_vars

\* One run of the frequency_sweep code, which the owner may cancel.
NextSweep ==
    \/ \E a \in SweepFrequencies, b \in SweepFrequencies, num \in SweepPoints :
          SweepStart(a, b, num)
    \/ SweepCancel
    \/ SweepCheckStop
    \/ SweepMeasure
    \/ SweepFinish

SpecSweep == Init /\ [][NextSweep]_vars

\* A sequence built, turned into a dictionary and made again from it, and an
\* AutomationEngine loading sequence files.
NextDocument ==
    \/ \E id \in SequenceIds, name \in SequenceNames : NewSequence(id, name)
    \/ \E v \in VariableMaps : SetVariables(v)
    \/ \E t \in GlobalTimeouts : SetGlobalTimeout(t)
    \/ \E step \in WholeSteps : AddWholeStep(step)
    \/ ToDictCall
    \/ FromDictCall
    \/ RegisterSequence
    \/ \E data \in FileDocuments : LoadSequence(data)

SpecDocument == Init /\ [][NextDocument]_vars

\* A MeasurementSequence registered with, and driven through, an AutomationEngine.
NextEngine ==
    \/ \E t \in StepTypes, e \in BOOLEAN : AddStep(t, e)
    \/ RegisterSequence
    \/ StartSequence
    \/ PauseSequence
    \/ ResumeSequence
    \/ CancelSequence
    \/ WorkerStep
    \/ DeliverEvent

SpecEngine == Init /\ [][NextEngine]_vars

ScriptWorkerStep ==
    \/ \E s \in RunScripts : ScriptRunStart(s)
    \/ \E s \in RunScripts : ScriptBodyCheckStop(s)
    \/ \E s \in RunScripts : ScriptBodySetProgress(s)
    \/ \E s \in RunScripts : ScriptBodyReturn(s)
    \/ \E s \in RunScripts : ScriptBodyRaise(s)

\* An AutomationScript used directly by its owner.
NextScript ==
    \/ \E s \in RunScripts, d \in ParamDecls : AddParameter(s, d)
    \/ \E s \in RunScripts, n \in Names, v \in Values : SetParameterValue(s, n, v)
    \/ \E s \in RunScripts, ctxArg \in {"none", "fresh"} : Execute(s, ctxArg)
    \/ \E s \in RunScripts : Cancel(s)
    \/ ScriptWorkerStep
    \/ DeliverScriptEvent

SpecScript == Init /\ [][NextScript]_vars

\* Two scripts registered with one ScriptingEngine and run through it: A is
\* handed parameters, B declares the channel parameter and is handed none.
NextTwoScripts ==
    \/ AddParameter("B", ChannelParam)
    \/ \E s \in ScriptIds : RegisterScript(s)
    \/ \E v \in {None, StrV("CH1")} :
          ExecuteScriptUpTo(MaxEngineCalls, "A",
                            IF v = None THEN <<>> ELSE [n \in {"channel"} |-> v])
    \/ ExecuteScriptUpTo(MaxEngineCalls, "B", <<>>)
    \/ \E s \in ScriptIds : CancelScript(s)
    \/ \E s \in ScriptIds : ScriptRunStart(s)
    \/ \E s \in ScriptIds : ScriptBodyCheckStop(s)
    \/ \E s \in ScriptIds : ScriptBodyGetParameter(s, "channel")
    \/ \E s \in ScriptIds : ScriptBodyReturn(s)
    \/ DeliverScriptEvent

SpecTwoScripts == Init /\ [][NextTwoScripts]_vars

\* An AutomationScript without declared parameters, used directly by its owner,
\* with a body that also logs, binds `result` and uses names of its namespace.
ScriptBodyStep ==
    \/ \E s \in RunScripts : ScriptBodyLog(s)
    \/ \E s \in RunScripts, v \in ResultValues : ScriptBodyBindResult(s, v)
    \/ \E s \in RunScripts, name \in LookupNames : ScriptBodyLookup(s, name)

NextScriptBody ==
    \/ \E s \in RunScripts, ctxArg \in {"none", "fresh"} : Execute(s, ctxArg)
    \/ \E s \in RunScripts : Cancel(s)
    \/ ScriptWorkerStep
    \/ ScriptBodyStep
    \/ DeliverScriptEvent

SpecScriptBody == Init /\ [][NextScriptBody]_vars

\* AutomationScripts registered with, and run through, a ScriptingEngine.  The
\* scripts outside RunScripts declare no parameter and are handed none; their
\* workers are not followed.
NextScriptEngine ==
    \/ \E s \in RunScripts, d \in ParamDecls : AddParameter(s, d)
    \/ \E s \in ScriptIds : RegisterScript(s)
    \/ \E s \in RunScripts, D \in SUBSET Names : \E given \in [D -> Values] :
          ExecuteScript(s, given)
    \/ \E s \in ScriptIds \ RunScripts : ExecuteScript(s, <<>>)
    \/ \E s \in ScriptIds : CancelScript(s)
    \/ ScriptWorkerStep
    \/ DeliverScriptEvent

SpecScriptEngine == Init /\ [][NextScriptEngine]_vars

\* A ScriptTemplate, the scripts made from it and changes made through them.
NextTemplate ==
    \/ \E s \in ScriptIds : CreateScriptFromTemplate(s)
    \/ \E s \in ScriptIds, name \in AddedNames : InstanceAddParameter(s, name)
    \/ \E s \in ScriptIds, i \in 1..MaxObjects, v \in DefaultValues :
          InstanceSetDefault(s, i, v)

SpecTemplate == Init /\ [][NextTemplate]_vars

\* A ChannelGroup and its callers.
NextGroup ==
    \/ \E id \in ChannelIds, e \in BOOLEAN, r \in ChannelRole :
          AddChannel([channel_id |-> id, enabled |-> e, role |-> r])
    \/ \E id \in ChannelIds : RemoveChannel(id)
    \/ \E sm \in SyncMode, m \in ChannelIds \cup {NoMaster} :
          SetSyncConfig([sync_mode |-> sm, master_channel |-> m])

SpecGroup == Init /\ [][NextGroup]_vars

\* An AdvancedTriggerManager driven by its owner and by its poll timer.
NextTrigger ==
    \/ \E id \in TriggerIds, mode \in TriggerMode, en \in BOOLEAN, cmpl \in BOOLEAN :
          RegisterTrigger(id, mode, en, cmpl)
    \/ \E id \in TriggerIds : ActivateTrigger(id)
    \/ DeactivateTrigger
    \/ \E met \in BOOLEAN : CheckTriggerConditions(met)

SpecTrigger == Init /\ [][NextTrigger]_vars

\* A ChannelGroup that is set up and then acquires, single-shot and
\* continuously.
NextAcquisition ==
    \/ /\ ~is_acquiring
       /\ \E e \in BOOLEAN :
             AddChannel([channel_id |-> IF channels = <<>> THEN "CH1" ELSE "CH2",
                         enabled |-> e, role |-> "slave"])
    \/ /\ ~is_acquiring
       /\ \E sm \in {"trigger_sync", "phase_sync"} :
             SetSyncConfig([sync_mode |-> sm, master_channel |-> "CH1"])
    \/ /\ ~is_acquiring
       /\ \E osc \in Oscilloscopes : SetOscilloscope(osc)
    \/ captures < MaxCaptures /\ AcquireSingle
    \/ StartAcquisition
    \/ StopAcquisition
    \/ captures < MaxCaptures /\ AcquisitionThreadRun
    \/ OnDataAcquired

SpecAcquisition == Init /\ [][NextAcquisition]_vars

\* The synchronisation analysis applied to pairs of waveforms.
NextQuality ==
    \/ \E x, y \in Waveforms : SetWaveforms(x, y)
    \/ AnalyzeSynchronization

SpecQuality == Init /\ [][NextQuality]_vars

(***************************************************************************)
(* Observations over history used by the claims on sequences.              *)
(***************************************************************************)
HistoryIdx(name) == {j \in 1..Len(history) : history[j].sig = name}

StartedIds == {history[j].arg : j \in HistoryIdx("step_started")}

EnabledIds == {steps[i].step_id : i \in {n \in 1..Len(steps) : steps[n].enabled}}

CancelReturnedTrue == HistoryIdx("cancel_returned_true") # {}

\* the worker's execute_step raised for step id k (the signal is queued or handled)
StepRaised(k) ==
    \/ \E j \in 1..Len(mainQueue) : mainQueue[j].sig = "step_failed" /\ mainQueue[j].arg = k
    \/ \E j \in HistoryIdx("step_failed") : history[j].arg = k

StepFailureHandled(k) == \E j \in HistoryIdx("step_failed") : history[j].arg = k

\* a start_execution call (direct or through start_sequence) happens in this step
StartCall ==
    /\ Len(history') = Len(history) + 1
    /\ history'[Len(history')].by = "start_execution"

AllowedStatusTransitions ==
    {<<"idle", "running">>, <<"running", "paused">>, <<"paused", "running">>}
    \cup ({"running", "paused"} \X {"completed", "failed", "cancelled"})

(***************************************************************************)
(* Claims on MeasurementSequence and AutomationEngine.                     *)
(***************************************************************************)

\* C1: the status of a MeasurementSequence changes only along Idle->Running,
\* Running->Paused, Paused->Running and Running/Paused->{Completed, Failed,
\* Cancelled}; a terminal status never changes again.
C1_StatusTransitions ==
    [][status' # status => <<status, status'>> \in AllowedStatusTransitions]_vars

\* C2: after cancel_execution has returned true, no sequence_completed and no
\* sequence_failed is emitted for the run and no failure is recorded in the result.
C2_NoReportAfterCancel ==
    \A j \in HistoryIdx("cancel_returned_true") :
        /\ \A k \in (j + 1)..Len(history) :
              /\ history[k].sig # "sequence_completed"
              /\ ~(history[k].sig = "sequence_failed" /\ history[k].by = "_on_sequence_failed")
        /\ result.errors = <<>>

\* C3: when cancel_execution is called while the sequence is Paused and the worker
\* is in the pause-wait loop, the status is Cancelled and no step_started is
\* emitted after the cancel.
C3_CancelInPauseWait ==
    \A j \in HistoryIdx("cancel_returned_true") :
        history[j].arg = 1 =>
            /\ status = "cancelled"
            /\ \A k \in (j + 1)..Len(history) : history[k].sig # "step_started"

\* C3 witness: the cancel hit the pause-wait loop after a step had run, and the
\* worker has since returned from run() with steps left in the list.
C3_Witness ==
    /\ \E j \in HistoryIdx("cancel_returned_true") :
          history[j].arg = 1 /\ \E k \in 1..(j - 1) : history[k].sig = "step_started"
    /\ pc = "done"
    /\ idx <= Len(steps)
    /\ steps[idx].enabled

\* C4: when an enabled step raises and the sequence was not cancelled, the worker
\* has stopped and no later step was started; once the failure is handled the
\* sequence is Failed and its result has status Failed, step_results holding
\* exactly the enabled steps before the failing one, and a non-empty errors list
\* whose entries all name the failing step.
C4_FailFast ==
    \A k \in 0..(Len(steps) - 1) :
        (StepRaised(k) /\ ~CancelReturnedTrue) =>
            /\ pc = "done"
            /\ \A id \in StartedIds : id <= k
            /\ StepFailureHandled(k) =>
                  /\ status = "failed"
                  /\ result.status = "failed"
                  /\ result.ended
                  /\ result.step_results =
                        {steps[i].step_id : i \in {n \in 1..k : steps[n].enabled}}
                  /\ result.errors # <<>>
                  /\ \A e \in 1..Len(result.errors) : result.errors[e].step_id = k

\* C4 witness: three steps, the second raised, and the failure has been handled
\* with the first step's result recorded.
C4_Witness ==
    /\ Len(steps) = 3
    /\ steps[3].enabled
    /\ StepFailureHandled(1)
    /\ ~CancelReturnedTrue
    /\ result.step_results = {0}

C6_StartGuard ==
    /\ [][StartCall =>
            IF status = "idle" /\ Len(steps) > 0
            THEN lastOp'.ret /\ threads_created' = threads_created + 1
            ELSE /\ ~lastOp'.ret
                 /\ UNCHANGED <<status, current_step_index, result, execution_thread,
                                threads_created, paused, cancelled, pc, idx>>]_vars
    /\ [](threads_created <= 1)

\* C6 witness: a start was rejected while the worker of the first start exists.
C6_Witness ==
    /\ rejected > 0
    /\ lastOp = [op |-> "start_execution", ret |-> FALSE]
    /\ status = "paused"
    /\ pc = "exec"
    /\ threads_created = 1

\* C7: start_sequence for a registered sequence that is Running or Paused is
\* rejected with no state change: the status is kept and the sequence stays in
\* active_sequences.
C7_RejectedStartKeepsActive ==
    [][(StartCall /\ lastOp'.op = "start_sequence" /\ status \in {"running", "paused"}
          /\ SeqId \in active_sequences) =>
            (~lastOp'.ret /\ status' = status /\ SeqId \in active_sequences')]_vars

(***************************************************************************)
(* Claims on AutomationScript and ScriptingEngine.                         *)
(***************************************************************************)
\* an execute / execute_script call happens in this step
ExecCall == script_calls' = script_calls + 1

\* C8: execute on a script with a required parameter whose value is unset returns
\* false, starts no worker, leaves the status as it is (Idle stays Idle) and emits
\* neither execution_started nor progress_updated.
C8_UnsetRequiredRejected ==
    [][\A s \in ScriptIds :
          (/\ ExecCall
           /\ script_ret'.op = "execute"
           /\ script_ret'.sid = s
           /\ RequiredUnset(parameters[s], ValuesOf(context[s], ctx_parameters)))
          => /\ ~script_ret'.ret
             /\ thread'[s] = thread[s]
             /\ script_status'[s] = script_status[s]
             /\ emitted'[s]["execution_started"] = emitted[s]["execution_started"]
             /\ emitted'[s]["progress_updated"] = emitted[s]["progress_updated"]]_vars

\* C8 witness: an Idle script with two required parameters, one of them set to a
\* valid value and the other unset, whose execute call was rejected.
C8_Witness ==
    /\ script_ret = [op |-> "execute", sid |-> "A", ret |-> FALSE, valid |-> FALSE,
                     named |-> {"num_points"}]
    /\ script_status["A"] = "idle"
    /\ parameters["A"] = <<ChannelParam, NumPointsParam>>
    /\ context["A"] = "own_A"
    /\ ctx_parameters["own_A"]["channel"] = StrV("CH1")
    /\ ctx_parameters["own_A"]["num_points"] = None
    /\ emitted["A"]["execution_failed_by_execute"] = 1

\* C9: execute_script on a registered Idle script, with a valid value supplied
\* for every required parameter, returns true and the script becomes Running.
C9_EngineValidatesSupplied ==
    [][\A s \in ScriptIds :
          (/\ ExecCall
           /\ script_ret'.op = "execute_script"
           /\ script_ret'.sid = s
           /\ s \in scripts
           /\ script_status[s] = "idle"
           /\ script_ret'.valid)
          => (script_ret'.ret /\ script_status'[s] = "running")]_vars

\* C10: after cancel has returned true the status is Cancelled and stays Cancelled,
\* and neither execution_completed nor execution_failed is emitted for the
\* execution.
C10_CancelFinal ==
    [][\A s \in ScriptIds :
          /\ cancel_returned'[s] => script_status'[s] = "cancelled"
          /\ cancel_returned[s] =>
                /\ emitted'[s]["execution_completed"] = emitted[s]["execution_completed"]
                /\ emitted'[s]["execution_failed"] = emitted[s]["execution_failed"]]_vars

\* the worker of s has finished and no signal of it awaits delivery
WorkerFinished(s) ==
    /\ thread[s].pc = "done"
    /\ \A i \in 1..Len(scriptQueue) : scriptQueue[i].script # s

\* C11: a script whose body has terminated, by returning or by raising, has left
\* Running for Completed, Failed or Cancelled once its worker has finished and
\* its signals are handled; it never stays Running.
C11_FinishedNotRunning ==
    \A s \in RunScripts :
        WorkerFinished(s) => script_status[s] \in {"completed", "failed", "cancelled"}

\* C12: execute on a script whose status is not Idle returns false, starts no
\* worker and leaves the status and the worker the script has unchanged.
C12_NonIdleExecuteRejected ==
    [][\A s \in ScriptIds :
          (/\ ExecCall
           /\ script_ret'.op = "execute"
           /\ script_ret'.sid = s
           /\ script_status[s] # "idle")
          => /\ ~script_ret'.ret
             /\ thread'[s] = thread[s]
             /\ script_status'[s] = script_status[s]
             /\ emitted'[s]["execution_started"] = emitted[s]["execution_started"]]_vars

\* C12 witness: execute was rejected on a Running script whose worker is inside
\* the body.
C12_Witness ==
    /\ script_ret.op = "execute"
    /\ script_ret.sid = "A"
    /\ ~script_ret.ret
    /\ script_status["A"] = "running"
    /\ thread["A"].pc = "body"
    /\ emitted["A"]["execution_started"] = 1
    /\ emitted["A"]["execution_failed_by_execute"] = 1

\* C13: every log() call of a running script is appended, in call order, to the
\* captured output of its execution and is relayed as output_updated at the
\* time of the call.
C13_LogCapturedAndRelayed ==
    \A s \in RunScripts :
        /\ thread[s].output = thread[s].logged
        /\ emitted[s]["output_updated"] = Len(thread[s].logged)

\* C14: when the body has returned and the execution was not cancelled, the
\* result is Completed with return_value the body's binding of `result` (None
\* when it binds none); when the body has raised an uncaught error, the script
\* is Failed and its result has a non-empty error and no return value.
C14_ResultContract ==
    \A s \in RunScripts :
        (WorkerFinished(s) /\ ~cancel_returned[s]) =>
            /\ thread[s].outcome = "returned" =>
                  /\ script_status[s] = "completed"
                  /\ last_result[s] =
                        [status |-> "completed",
                         return_value |-> IF thread[s].bound THEN thread[s].result
                                                             ELSE None,
                         error |-> ""]
            /\ thread[s].outcome \in {"raised", "interrupted"} =>
                  /\ script_status[s] = "failed"
                  /\ last_result[s].status = "failed"
                  /\ last_result[s].error # ""
                  /\ last_result[s].return_value = None

\* the required parameters that fail validation: unset, of the wrong type, out
\* of range, or not among the choices
FailingParameters(decls, vals) ==
    {decls[i].name : i \in {j \in 1..Len(decls) :
        LET d == decls[j]
            v == vals[d.name]
        IN  /\ d.required
            /\ \/ v = None
               \/ TypeErrors(d, v) # <<>>
               \/ (v.t = "int" /\ RangeErrors(d, v) # <<>>)
               \/ ChoiceErrors(d, v) # <<>>}}

\* C15: when required parameters fail validation, execute returns false and the
\* validation error it surfaces names every failing parameter.
C15_EveryFailingParameterNamed ==
    [][\A s \in ScriptIds :
          LET failing == FailingParameters(parameters[s],
                                           ValuesOf(context[s], ctx_parameters))
          IN  (/\ ExecCall
               /\ script_ret'.op = "execute"
               /\ script_ret'.sid = s
               /\ script_status[s] = "idle"
               /\ failing # {})
              => (~script_ret'.ret /\ script_ret'.named = failing)]_vars

\* builtins that open files, or import the modules for processes and sockets
SystemPrimitives == {"open", "__import__"}

\* C17: the namespace of a script body exposes only the documented primitives;
\* no process, file or network primitive can be reached from a script.
C17_OnlyDocumentedPrimitives ==
    \A s \in RunScripts : thread[s].reached \cap SystemPrimitives = {}

(***************************************************************************)
(* Claims on script templates.                                             *)
(***************************************************************************)
\* C16: no change made through the parameters of a script created from a
\* template (adding a parameter, or modifying a field of an existing one)
\* changes the parameter definitions of the template or of another script
\* created from it.
C16_TemplateNotShared ==
    [][\A s \in ScriptIds :
          (template_op'.sid = s /\ template_op'.op \in {"add_parameter", "set_field"})
          => /\ TemplateDefinitions' = TemplateDefinitions
             /\ \A t \in ScriptIds \ {s} : InstanceDefinitions(t)' = InstanceDefinitions(t)]_vars

(***************************************************************************)
(* Claims on ChannelGroup.                                                 *)
(***************************************************************************)
\* C18: an enabled channel added to a group in which no channel is the master
\* becomes the master channel with role MASTER (so CH1, added first to a new
\* group); a channel added while a member is the master leaves the master as
\* it is.
C18_FirstEnabledPromoted ==
    [][(/\ group_ret'.op = "add_channel"
        /\ group_ret'.ret
        /\ Len(channels') = Len(channels) + 1)
       => LET new == channels'[Len(channels')] IN
             IF sync_config.master_channel \in Members(channels)
             THEN sync_config'.master_channel = sync_config.master_channel
             ELSE new.enabled =>
                     /\ sync_config'.master_channel = new.channel_id
                     /\ new.role = "master"]_vars

\* C19: sync_config.master_channel names a channel that is a member of the
\* group, in every reachable state.
C19_MasterIsMember == sync_config.master_channel \in Members(channels)

GetProgress ==
    IF steps = <<>> THEN 0 ELSE (current_step_index * 100) \div Len(steps)

DisabledIds == {steps[i].step_id : i \in {n \in 1..Len(steps) : ~steps[n].enabled}}

\* C30: a disabled step is never executed and gets no entry in step_results, but
\* it counts as processed: when a sequence that contains disabled steps has
\* completed, current_step_index equals the number of steps and get_progress()
\* is 100.
C30_DisabledCountedAsProcessed ==
    /\ StartedIds \cap DisabledIds = {}
    /\ result.step_results \cap DisabledIds = {}
    /\ (status = "completed" /\ DisabledIds # {}) =>
          /\ current_step_index = Len(steps)
          /\ GetProgress = 100

\* the worker is inside execute_step for a delay step
InDelay == pc = "exec" /\ steps[idx].step_type = "delay"

\* C28: a delay step honours cancellation during its wait: when the sequence
\* has been cancelled while the worker is inside the delay, the worker leaves
\* the delay without completing the step (no step_completed is emitted for it).
C28_DelayHonoursCancel ==
    [][(InDelay /\ cancelled /\ pc' # "exec") => mainQueue' = mainQueue]_vars

\* C29: a condition step branches on its action.  For some condition result,
\* every executed condition step with that result and action skip is followed
\* by a step that is not executed, and after one with action abort no later
\* step is executed.
C29_ConditionBranches ==
    \E r \in BOOLEAN :
       \A i \in 1..Len(steps) :
          (/\ steps[i].step_type = "condition"
           /\ steps[i].condition \in ConditionLiterals
           /\ ConditionResult(steps[i]) = r
           /\ steps[i].step_id \in StartedIds)
          => /\ steps[i].action = "skip" =>
                   (i < Len(steps) => steps[i+1].step_id \notin StartedIds)
             /\ steps[i].action = "abort" =>
                   \A j \in (i+1)..Len(steps) : steps[j].step_id \notin StartedIds

C27_SingleFiresOnce ==
    [][/\ (activation'.id # NoActiveTrigger
             /\ triggers'[activation'.id].trigger_mode = "single")
          => activation'.fired <= 1
       /\ (trigger_ret'.op = "_check_trigger_conditions" /\ trigger_ret'.ret) =>
             IF triggers[active_trigger].trigger_mode = "single"
             THEN active_trigger' = NoActiveTrigger /\ ~trigger_timer'
             ELSE active_trigger' = active_trigger /\ trigger_timer']_vars

\* C27 witness: the check fired a SINGLE-mode trigger, which is active no more.
C27_Witness ==
    /\ trigger_ret = [op |-> "_check_trigger_conditions", id |-> "T1", ret |-> TRUE,
                      deactivated |-> "T1"]
    /\ triggers["T1"].trigger_mode = "single"
    /\ activation = [id |-> "T1", fired |-> 1]
    /\ active_trigger = NoActiveTrigger

\* the step is a call of acquire_single
AcquireSingleStep == acq_ret'.op = "acquire_single" /\ UNCHANGED groupVars

\* C21: acquire_single called while is_acquiring is true returns None, does
\* not run a capture on the collaborator, and leaves last_acquisition and
\* data_buffer unchanged.
C21_SingleRefusedWhileAcquiring ==
    [][(AcquireSingleStep /\ is_acquiring) =>
          /\ acq_ret'.ret = NoCapture
          /\ ~acq_ret'.performed
          /\ captures' = captures
          /\ last_acquisition' = last_acquisition
          /\ data_buffer' = data_buffer]_vars

\* C21 witness: acquire_single was refused during a continuous acquisition
\* that has already delivered a capture.
C21_Witness ==
    /\ acq_ret = [NoCall EXCEPT !.op = "acquire_single"]
    /\ is_acquiring
    /\ last_acquisition # NoCapture
    /\ data_buffer # <<>>

\* C22: with a connected collaborator that lacks optional methods,
\* acquire_single on an idle group does not fail: unless the collaborator
\* reported no completion within the timeout, it returns a MultiChannelData
\* with data for every enabled channel, placeholder data where
\* get_waveform_data is missing, and emits no sync_error.
C22_DegradesGracefully ==
    [][(AcquireSingleStep /\ ~is_acquiring /\ oscilloscope.connected
           /\ acq_ret'.wait # "timeout") =>
          /\ acq_ret'.ret # NoCapture
          /\ acq_ret'.ret.channels = Members(EnabledChannels(channels))
          /\ acq_ret'.ret.simulated <=> "get_waveform_data" \notin oscilloscope.caps
          /\ acq_ret'.error = ""
          /\ last_acquisition' = acq_ret'.ret]_vars

\* C23: when the collaborator reports no completion within the timeout,
\* acquire_single returns no MultiChannelData, leaves last_acquisition and
\* data_buffer unchanged, and emits sync_error with the timeout's message.
C23_TimeoutSurfaced ==
    [][(AcquireSingleStep /\ acq_ret'.wait = "timeout") =>
          /\ acq_ret'.ret = NoCapture
          /\ last_acquisition' = last_acquisition
          /\ data_buffer' = data_buffer
          /\ acq_ret'.error = "Single acquisition failed: Acquisition timeout"]_vars

\* the captures that _add_to_buffer has been called for: those not queued
BufferedIds == (1..captures) \ {acqQueue[i].id : i \in 1..Len(acqQueue)}

\* C24: data_buffer never holds more than 100 captures, and after n captures
\* it holds the most recent min(n, 100) of them in acquisition order.
C24_BufferKeepsNewest ==
    LET n == Cardinality(BufferedIds)
        held == {data_buffer[i].id : i \in 1..Len(data_buffer)}
    IN  /\ Len(data_buffer) <= max_buffer_size
        /\ Len(data_buffer) = IF n < max_buffer_size THEN n ELSE max_buffer_size
        /\ held \subseteq BufferedIds
        /\ \A old \in BufferedIds \ held : \A new \in held : old < new
        /\ \A i, j \in 1..Len(data_buffer) :
              i < j => data_buffer[i].id < data_buffer[j].id

\* the score is the float 1.0
IsOne(q) == ~q.nan /\ q.num = q.den

\* C25: for identical waveforms on the master and the slave channel, whatever
\* the waveform, the lag of the largest cross-correlation is zero, the
\* slave's timing quality is 1.0 and its amplitude correlation is 1.0.
C25_IdenticalWaveformsScoreOne ==
    (sync_quality.computed /\ voltage_data.master = voltage_data.slave) =>
        /\ sync_quality.lag = 0
        /\ IsOne(sync_quality.timing)
        /\ IsOne(sync_quality.amplitude)

\* C39: once stop_acquisition has returned, last_acquisition and data_buffer
\* do not change and no data_acquired is emitted while the group stays
\* stopped, except by a call of acquire_single.
C39_QuietAfterStop ==
    [][(~is_acquiring /\ ~is_acquiring' /\ acq_ret'.op # "acquire_single") =>
          /\ last_acquisition' = last_acquisition
          /\ data_buffer' = data_buffer
          /\ acq_ret'.op # "_on_data_acquired"]_vars

\* C35: whenever the sequence is in a terminal status its result is finalized:
\* result.status equals the status, end_time is set, and step_results and
\* errors are not modified afterwards.
C35_ResultFinalized ==
    [][status' \in {"completed", "failed", "cancelled"} =>
          /\ result'.status = status'
          /\ result'.ended
          /\ status \in {"completed", "failed", "cancelled"} =>
                /\ result'.step_results = result.step_results
                /\ result'.errors = result.errors]_vars


\* the steps of a type without an executor that execute_step has been called
\* for and has left
NoExecutorRan ==
    {k \in StartedIds : /\ steps[k + 1].step_type \in NoExecutorTypes
                        /\ ~(pc = "exec" /\ idx = k + 1)}

\* C40: an enabled step of type analysis or export, once execute_step has been
\* called for it, has raised: the worker has returned, the step has no result,
\* no later step is started, and once the failure is handled the sequence is
\* Failed with an error naming that step.
C40_NoExecutor ==
    \A k \in NoExecutorRan :
        /\ StepRaised(k)
        /\ pc = "done"
        /\ k \notin result.step_results
        /\ \A j \in 1..Len(mainQueue) :
              ~(mainQueue[j].sig = "step_completed" /\ mainQueue[j].arg = k)
        /\ \A id \in StartedIds : id <= k
        /\ StepFailureHandled(k) =>
              /\ status = "failed"
              /\ result.status = "failed"
              /\ \E e \in 1..Len(result.errors) : result.errors[e].step_id = k

\* C40 witness: a measurement, then an export step that failed the sequence
\* while an analysis step after it was never started.
C40_Witness ==
    /\ Len(steps) = 3
    /\ steps[2].step_type = "export"
    /\ steps[3].step_type = "analysis"
    /\ steps[3].enabled
    /\ StepFailureHandled(1)
    /\ status = "failed"
    /\ StartedIds = {0, 1}


\* the step_failed signals emitted for step k, queued or handled
FailuresOf(k) ==
    Cardinality({j \in 1..Len(mainQueue) :
                    mainQueue[j].sig = "step_failed" /\ mainQueue[j].arg = k})
    + Cardinality({j \in HistoryIdx("step_failed") : history[j].arg = k})

\* C36: retry_count has no effect: a step whose execution raised was started
\* exactly once and failed exactly once, the worker has returned without
\* starting a later step, and once the failure is handled the sequence is
\* Failed, whatever the step's retry_count.
C36_RetryIgnored ==
    \A k \in 0..(Len(steps) - 1) :
        StepRaised(k) =>
            /\ Cardinality({j \in HistoryIdx("step_started") : history[j].arg = k}) = 1
            /\ FailuresOf(k) = 1
            /\ pc = "done"
            /\ \A id \in StartedIds : id <= k
            /\ StepFailureHandled(k) => status = "failed"

\* C36 witness: the first step has a positive retry_count, raised, and the
\* sequence is Failed with the step after it never started.
C36_Witness ==
    /\ Len(steps) >= 2
    /\ steps[1].retry_count > 0
    /\ StepFailureHandled(0)
    /\ status = "failed"
    /\ StartedIds = {0}


\* the worker announces a step in this transition
StepStartedNow ==
    /\ Len(history') = Len(history) + 1
    /\ history'[Len(history')].sig = "step_started"

\* C34: pausing takes effect between steps: while the paused flag is set the
\* worker starts no new step, and a step it starts, before a pause or after a
\* resume, is the next enabled step in list order that has not been started.
C34_PauseBetweenSteps ==
    [][StepStartedNow =>
          /\ ~paused
          /\ LET k == history'[Len(history')].arg IN
                /\ k \notin StartedIds
                /\ \A i \in EnabledIds : i < k => i \in StartedIds]_vars


\* C37: a script run through the ScriptingEngine is interrupted at check_stop only
\* if that script itself was cancelled: cancelling A does not interrupt B.
C37_CancelIsolated ==
    \A s \in ScriptIds : thread[s].outcome = "interrupted" => cancel_returned[s]

\* C38: parameter bindings are isolated per script: B is handed no parameters,
\* so execute_script for B passes validation exactly when B's declarations
\* accept the absence of every value, and get_parameter in B's body returns
\* None, whatever parameters were handed to execute_script for A.
C38_ParameterIsolation ==
    /\ [][(/\ ExecCall
           /\ script_ret'.op = "execute_script"
           /\ script_ret'.sid = "B"
           /\ "B" \in scripts
           /\ script_status["B"] = "idle")
          => (script_ret'.ret <=>
                 ValidateParameters(parameters["B"], NoValues)
                    = [exc |-> FALSE, errors |-> <<>>])]_vars
    /\ [](thread["B"].bound => thread["B"].result = None)


\* C33: a frequency sweep that ran to completion with num_points = n called the
\* measurement primitive exactly n times, each call right after a check_stop,
\* and its result's frequencies has length n, starts with start_frequency and
\* ends with stop_frequency.
C33_SweepContract ==
    sweep.pc = "done" =>
        LET n == sweep.num_points IN
            /\ Len(sweep.calls) = 2 * n
            /\ \A j \in 1..n : /\ sweep.calls[2 * j - 1] = "check_stop"
                               /\ sweep.calls[2 * j] = "measure"
            /\ sweep.amplitudes = n
            /\ Len(sweep.result) = n
            /\ sweep.result[1] = sweep.start_freq
            /\ sweep.result[n] = sweep.stop_freq

\* C33 witness: the sweep from 100 to 1000 in 4 points has completed.
C33_Witness ==
    /\ sweep.pc = "done"
    /\ sweep.num_points = 4
    /\ sweep.result = <<100, 400, 700, 1000>>
    /\ Len(sweep.calls) = 8


\* C31: from_dict(to_dict(s)) has the steps of s (every field, same order), its
\* variables and its global timeout, and to_dict of it equals to_dict(s).
C31_RoundTrip ==
    reloaded # NoSequenceObj =>
        /\ reloaded.steps = sequence_obj.steps
        /\ reloaded.variables = sequence_obj.variables
        /\ reloaded.global_timeout = sequence_obj.global_timeout
        /\ ToDict(reloaded) = ToDict(sequence_obj)

\* C31 witness: a reloaded sequence of two steps, the second with no field at
\* its default, with a variable and a changed global timeout.
C31_Witness ==
    /\ reloaded # NoSequenceObj
    /\ reloaded.steps = <<DefaultStep, ExportStep>>
    /\ reloaded.variables # {}
    /\ reloaded.global_timeout = 60
    /\ reloaded.name = "Sweep"

\* the document holds a step whose type tag is not the value of a StepType member
UnknownTag(data) ==
    \E i \in 1..Len(Get(data, "steps", <<>>)) :
        /\ "step_type" \in DOMAIN data.steps[i]
        /\ data.steps[i].step_type \notin {StepTypeValue(m) : m \in StepTypeMembers}

\* C32: load_sequence of a document with a step of unknown type tag returns no
\* id and registers nothing: the registry and the sequences loaded so far are
\* unchanged, so no step got a default type.
C32_UnknownTypeFailsLoad ==
    [][(load_ret'.n = load_ret.n + 1 /\ UnknownTag(load_ret'.data)) =>
          /\ load_ret'.ret = NoId
          /\ sequences' = sequences
          /\ loaded' = loaded]_vars

\* C32 witness: after one sequence was loaded, a document with an unknown tag
\* was refused.
C32_Witness ==
    /\ load_ret.op = "load_sequence"
    /\ UnknownTag(load_ret.data)
    /\ load_ret.ret = NoId
    /\ Len(loaded) = 1
    /\ sequences = {"seq2"}

====
